---- MODULE Spec2Model ----
(***************************************************************************)
(* Model of the brainshape sync & indexing engine: the on-disk corpus, the *)
(* graph store (note, tag, chunk tables and the tagged_with, links_to and  *)
(* from_document edges), structural sync (sync.py), semantic sync          *)
(* (sync.py + kg_pipeline.py) and the triggers that run them concurrently. *)
(*                                                                         *)
(* Granularity: one step per db.query call and per file-system read.  The  *)
(* store executes each query atomically.  Timestamps (created_at,          *)
(* modified_at) and embedding vectors (a function of the chunk text) are   *)
(* not part of the state.                                                  *)
(***************************************************************************)
EXTENDS Integers, Sequences, FiniteSets, Bags, TLC

\* ------------------------------------------------------------------ corpus

\* Corpus-relative paths of the documents the model follows.
Paths == {"a.md", "b.md"}

\* The path a rename or a tool can add to them.
NotePaths == Paths \cup {"c.md"}

\* file_path.stem
Title(p) == IF p = "a.md" THEN "a" ELSE IF p = "b.md" THEN "b" ELSE "c"

\* f"{title}.md" at the root of the corpus
PathOf(title) == IF title = "a" THEN "a.md" ELSE IF title = "b" THEN "b.md" ELSE "c.md"

\* A readable file is a sequence of tokens: inline tags, wikilinks and words.
TagTok(x) == [k |-> "tag", v |-> x]
LinkTok(x) == [k |-> "link", v |-> x]
\* [[x|label]] and [[x#heading]]
AliasTok(x) == [k |-> "alias", v |-> x]
AnchorTok(x) == [k |-> "anchor", v |-> x]
LinkKinds == {"link", "alias", "anchor"}

File(toks) == [st |-> "ok", toks |-> toks]
\* A file whose bytes do not decode (read_text raises); read_bytes still works.
Bad == [st |-> "undecodable", toks |-> <<>>]
\* No file at the path.
NoFile == [st |-> "nofile", toks |-> <<>>]
\* A field that was never set (SurrealDB's NONE).
NoContent == [st |-> "none", toks |-> <<>>]
NoTitle == "NONE"
NoId == 0

\* The file contents the environment writes.
Contents ==
    { File(<<>>),
      File(<<TagTok("t1"), LinkTok("b")>>),
      File(<<TagTok("t2")>>),
      File(<<LinkTok("a")>>),
      Bad }

Readable(c) == c.st = "ok"

\* TAG_RE.findall + lowercase + set
ExtractTags(c) == {c.toks[i].v : i \in {j \in DOMAIN c.toks : c.toks[j].k = "tag"}}

RECURSIVE DedupSeq(_, _)
DedupSeq(s, seen) ==
    IF s = <<>> THEN <<>>
    ELSE IF Head(s) \in seen THEN DedupSeq(Tail(s), seen)
    ELSE <<Head(s)>> \o DedupSeq(Tail(s), seen \cup {Head(s)})

\* _extract_wikilinks: the targets of WIKILINK_RE's matches, each cleaned of
\* its alias, heading and folder by _clean_wikilink, in first-seen order,
\* deduplicated
ExtractLinks(c) ==
    LET ls == SelectSeq(c.toks, LAMBDA t : t.k \in LinkKinds)
    IN DedupSeq([i \in 1..Len(ls) |-> ls[i].v], {})

\* compute_file_hash: SHA-256 of the raw bytes (injective on the model's files)
Hash(c) == [alg |-> "sha256", of |-> c]
NoHash == [alg |-> "none", of |-> NoFile]

\* parse_note
ParseNote(p, c) ==
    [path |-> p, title |-> Title(p), content |-> c,
     links |-> ExtractLinks(c), tags |-> ExtractTags(c)]

\* Sequence of the elements of a set of paths in sorted order (list_notes sorts).
RECURSIVE SortedSeq(_)
SortedSeq(S) ==
    IF S = {} THEN <<>>
    ELSE LET m == IF "a.md" \in S THEN "a.md"
                  ELSE IF "b.md" \in S THEN "b.md" ELSE CHOOSE x \in S : TRUE
         IN <<m>> \o SortedSeq(S \ {m})

\* list_notes: every .md file outside .trash, sorted
ListNotes(d) == SortedSeq({p \in DOMAIN d : d[p] # NoFile})

\* read_all_notes: parse every listed file, skipping the ones that fail to parse
ReadAllNotes(d) ==
    LET ps == SelectSeq(ListNotes(d), LAMBDA p : Readable(d[p]))
    IN [i \in 1..Len(ps) |-> ParseNote(ps[i], d[ps[i]])]

\* ------------------------------------------------------------------- store

\* Scaled-down chunk window and overlap (kg_pipeline defaults 4000 and 200).
ChunkSize == 2
ChunkOverlap == 1

Max(a, b) == IF a >= b THEN a ELSE b
Min(a, b) == IF a <= b THEN a ELSE b

RECURSIVE SplitFrom(_, _, _, _)
SplitFrom(text, start, size, step) ==
    IF start >= Len(text) THEN <<>>
    ELSE <<SubSeq(text, start + 1, Min(Len(text), start + size))>>
         \o SplitFrom(text, start + step, size, step)

\* _split_text (start is 0-based as in the source)
SplitText(text, chunk_size, chunk_overlap) ==
    IF text = <<>> THEN <<>>
    ELSE SplitFrom(text, 0, chunk_size, Max(1, chunk_size - chunk_overlap))

EmptyDb ==
    [note |-> {}, tag |-> {}, tagged_with |-> EmptyBag,
     links_to |-> EmptyBag, chunk |-> EmptyBag, related |-> EmptyBag]

\* Restriction of a bag to the elements in S (the rows a DELETE leaves).
BagKeep(B, S) == [e \in DOMAIN B \cap S |-> B[e]]

RECURSIVE SumCounts(_, _)
SumCounts(B, S) ==
    IF S = {} THEN 0
    ELSE LET x == CHOOSE y \in S : TRUE IN B[x] + SumCounts(B, S \ {x})

\* The bag of f[x] for x in B, f a function on the elements of B.
BagImage(B, f) ==
    [y \in {f[x] : x \in DOMAIN B} |-> SumCounts(B, {x \in DOMAIN B : f[x] = y})]

\* Record ids are unique and never reused.
UsedIds(g) ==
    {n.id : n \in g.note}
    \cup {e[1] : e \in DOMAIN g.tagged_with}
    \cup {e[1] : e \in DOMAIN g.links_to} \cup {e[2] : e \in DOMAIN g.links_to}
    \cup {c.doc : c \in DOMAIN g.chunk}
    \cup {e.in : e \in DOMAIN g.related} \cup {e.out : e \in DOMAIN g.related}
FreshId(g) == CHOOSE i \in 1..(Cardinality(UsedIds(g)) + 1) : i \notin UsedIds(g)

\* SELECT VALUE id FROM note WHERE path = $path
IdsByPath(g, p) == {n.id : n \in {m \in g.note : m.path = p}}
\* SELECT VALUE id FROM note WHERE title = $title
IdsByTitle(g, t) == {n.id : n \in {m \in g.note : m.title = t}}
\* (SELECT VALUE id FROM note WHERE path = $path)[0]
FirstIdByPath(g, p) ==
    IF IdsByPath(g, p) = {} THEN NoId
    ELSE CHOOSE i \in IdsByPath(g, p) : \A j \in IdsByPath(g, p) : i <= j

\* SELECT path FROM note
QStoredPaths(g) == {n.path : n \in g.note}

\* The note's old tag edges are kept.
QDeleteTaggedInKeep(g, p) == g

\* DELETE tagged_with WHERE in = (SELECT VALUE id FROM note WHERE path = $path)[0]
QDeleteTaggedIn(g, p) ==
    [g EXCEPT !.tagged_with =
        BagKeep(g.tagged_with, {e \in DOMAIN g.tagged_with : e[1] # FirstIdByPath(g, p)})]

\* The note's old outgoing links are kept.
QDeleteLinksInKeep(g, p) == g

\* DELETE links_to WHERE in = (SELECT VALUE id FROM note WHERE path = $path)[0]
QDeleteLinksIn(g, p) ==
    [g EXCEPT !.links_to =
        BagKeep(g.links_to, {e \in DOMAIN g.links_to : e[1] # FirstIdByPath(g, p)})]

\* DELETE links_to WHERE out = (SELECT VALUE id FROM note WHERE path = $path)[0]
QDeleteLinksOut(g, p) ==
    [g EXCEPT !.links_to =
        BagKeep(g.links_to, {e \in DOMAIN g.links_to : e[2] # FirstIdByPath(g, p)})]

\* DELETE chunk WHERE ->from_document->(note WHERE path = $path)
QDeleteChunks(g, p) ==
    [g EXCEPT !.chunk = BagKeep(g.chunk, {c \in DOMAIN g.chunk : c.doc \notin IdsByPath(g, p)})]

\* A DELETE that removes the records and keeps their edges.
QDeleteNoteOnly(g, p) == [g EXCEPT !.note = {n \in g.note : n.path # p}]

\* DELETE FROM note WHERE path = $path.  The store removes the edges of a
\* deleted record with it, so a chunk left behind loses its from_document edge.
QDeleteNote(g, p) ==
    LET gone == IdsByPath(g, p)
    IN [g EXCEPT
          !.note = {n \in g.note : n.path # p},
          !.tagged_with = BagKeep(g.tagged_with, {e \in DOMAIN g.tagged_with : e[1] \notin gone}),
          !.links_to =
              BagKeep(g.links_to, {e \in DOMAIN g.links_to : e[1] \notin gone /\ e[2] \notin gone}),
          !.related =
              BagKeep(g.related, {e \in DOMAIN g.related : e.in \notin gone /\ e.out \notin gone}),
          !.chunk =
              BagImage(g.chunk,
                       [c \in DOMAIN g.chunk |->
                           IF c.doc \in gone THEN [c EXCEPT !.doc = NoId] ELSE c])]

\* DELETE tag WHERE (SELECT VALUE id FROM tagged_with WHERE out = tag.id) = []
QDeleteOrphanTags(g) ==
    [g EXCEPT !.tag = {t \in g.tag : \E e \in DOMAIN g.tagged_with : e[2] = t}]

\* An upsert that replaces the whole record (UPSERT ... CONTENT), dropping
\* the fields it does not set.
QUpsertNoteReplace(g, p, title, content) ==
    IF IdsByPath(g, p) = {}
    THEN [g EXCEPT !.note = @ \cup {[id |-> FreshId(g), path |-> p, title |-> title,
                                      content |-> content, content_hash |-> NoHash]}]
    ELSE [g EXCEPT !.note = {IF n.path = p
                             THEN [n EXCEPT !.title = title, !.content = content,
                                            !.content_hash = NoHash]
                             ELSE n : n \in @}]

\* UPSERT note SET path, title, content, modified_at WHERE path = $path
\* (the created_at UPDATE that follows it changes no modelled field)
QUpsertNote(g, p, title, content) ==
    IF IdsByPath(g, p) = {}
    THEN [g EXCEPT !.note = @ \cup {[id |-> FreshId(g), path |-> p, title |-> title,
                                      content |-> content, content_hash |-> NoHash]}]
    ELSE [g EXCEPT !.note = {IF n.path = p
                             THEN [n EXCEPT !.title = title, !.content = content]
                             ELSE n : n \in @}]

\* UPSERT note SET path = $path, modified_at = time::now() WHERE path = $path
QUpsertNotePath(g, p) ==
    IF IdsByPath(g, p) = {}
    THEN [g EXCEPT !.note = @ \cup {[id |-> FreshId(g), path |-> p, title |-> NoTitle,
                                      content |-> NoContent, content_hash |-> NoHash]}]
    ELSE g

\* UPSERT tag SET name = $tag WHERE name = $tag
QUpsertTag(g, t) == [g EXCEPT !.tag = @ \cup {t}]

\* RELATE (SELECT VALUE id FROM note WHERE path = $path)->tagged_with->
\*        (SELECT VALUE id FROM tag WHERE name = $tag)
QRelateTagged(g, p, t) ==
    [g EXCEPT !.tagged_with =
        @ (+) SetToBag({<<i, u>> : i \in IdsByPath(g, p), u \in {x \in g.tag : x = t}})]

\* RELATE (SELECT VALUE id FROM note WHERE path = $source_path)->links_to->
\*        (SELECT VALUE id FROM note WHERE title = $target_title)
QRelateLinks(g, p, title) ==
    [g EXCEPT !.links_to =
        @ (+) SetToBag({<<i, j>> : i \in IdsByPath(g, p), j \in IdsByTitle(g, title)})]

\* LET $doc = (SELECT VALUE id FROM note WHERE path = $path)[0];
\* LET $chunk = (CREATE chunk SET text, embedding, idx)[0].id;
\* RELATE $chunk->from_document->$doc;
\* The statements are not one transaction: with no note at the path the chunk
\* is created and the RELATE fails, leaving the chunk without an owner.
QCreateChunk(g, p, text, idx) ==
    [g EXCEPT !.chunk =
        @ (+) SetToBag({[doc |-> FirstIdByPath(g, p), idx |-> idx, text |-> text]})]

\* UPDATE note SET content_hash = $hash WHERE path = $path
QSetHash(g, p, h) ==
    [g EXCEPT !.note = {IF n.path = p THEN [n EXCEPT !.content_hash = h] ELSE n : n \in @}]

\* _get_stored_hashes: {path: content_hash} of the notes that have a hash
GetStoredHashes(g) ==
    LET withHash == {n \in g.note : n.content_hash # NoHash}
    IN [p \in {n.path : n \in withHash} |->
           (CHOOSE n \in withHash : n.path = p).content_hash]

\* --------------------------------------------------------- structural sync

StructThreads == {"s1", "s2"}
SemThreads == {"m1", "m2"}

VARIABLES
    disk,             \* path -> file content, or NoFile
    db,               \* the graph store
    structural_lock,  \* _structural_lock is held
    ss,               \* structural-sync callers: position, locals, stats
    sem,              \* semantic-sync callers: position, locals, stats
    sched,            \* which callers the run has, and whether operations overlap
    edits,            \* corpus changes made so far
    runs,             \* sync calls made so far
    last,             \* graph at the end of the last structural pass, and the
                      \* corpus changes since
    lastSem,          \* the notes that failed in the last semantic pass that
                      \* returned, and the corpus changes since
    phase             \* 1: a structural pass that began at rest is running alone,
                      \* 2: it has completed, 3: a semantic pass follows it alone,
                      \* 0: otherwise (the corpus changed, or operations overlapped)

\* The debounce handler of the file watcher (NoteChangeHandler).
VARIABLES
    now,              \* the time, in ticks
    timer,            \* self._timer: the id of a Timer, or NoTimer
    timers,           \* every threading.Timer made so far: its state and deadline
    wlock,            \* self._lock is held
    hpc,              \* the observer thread: its position in _schedule_sync
    events,           \* times of the qualifying events handled so far
    seen,             \* events delivered so far, qualifying or not
    calls,            \* times of the on_change invocations so far
    acc               \* the last access to self._timer: its kind and whether the
                      \* accessing thread held self._lock

syncVars == <<disk, db, structural_lock, ss, sem, sched, edits, runs, last, lastSem, phase>>
watchVars == <<now, timer, timers, wlock, hpc, events, seen, calls, acc>>

\* The state of the components a sync operation does not touch.
\* The agent's tools: the entity records and edges of the agent-declared
\* schema, the relation tables defined, and each caller of create_connection.
VARIABLES ents, edges, tables, cc, conn

connVars == <<ents, edges, tables, cc, conn>>

\* The corpus and the trash as the note endpoints of the server see them:
\* files, the note rows of the graph, the clock, the last operation and the
\* deletions that put the entries of the trash there.
VARIABLES corpus, trash, gnotes, gq, clock, tops, tlast, held

trashVars == <<corpus, trash, gnotes, gq, clock, tops, tlast, held>>

\* The sync endpoints of the server: the module-level _db and _pipeline, whether the notes directory exists, the last response and the sync passes the endpoints have run.
VARIABLES server, resp, passes, reqs

serverVars == <<server, resp, passes, reqs>>

\* The embedding pipeline: the HNSW index on chunk.embedding (its dimension, or NoIndex) and the constructor of KGPipeline (its position, the configured dimension, and what it found and did).
VARIABLES index, kg

pipelineVars == <<index, kg>>

\* Path handling of the note operations: the files at their resolved locations inside and outside the corpus root, the store writes the handlers made, the last operation and the number of operations.
VARIABLES fsys, fstore, fop, fops

fsVars == <<fsys, fstore, fop, fops>>

\* The note endpoints and tools that write to the graph: each handler's position and locals, and the log of the renames that completed.
VARIABLES ep, rlog

epVars == <<ep, rlog>>

\* The text splitter called alone: its arguments and the windows it returned.
VARIABLES split

splitVars == <<split>>

\* The chunk rows the store held when a document was last edited.
VARIABLES kept

embedVars == <<kept>>

others == <<watchVars, connVars, trashVars, serverVars, pipelineVars, fsVars, epVars, splitVars, embedVars>>

exceptWatch == <<syncVars, connVars, trashVars, serverVars, pipelineVars, fsVars, epVars, splitVars, embedVars>>

exceptConn == <<syncVars, watchVars, trashVars, serverVars, pipelineVars, fsVars, epVars, splitVars, embedVars>>

exceptTrash == <<syncVars, watchVars, connVars, serverVars, pipelineVars, fsVars, epVars, splitVars, embedVars>>

exceptServer == <<syncVars, watchVars, connVars, trashVars, pipelineVars, fsVars, epVars, splitVars, embedVars>>

exceptPipeline == <<syncVars, watchVars, connVars, trashVars, serverVars, fsVars, epVars, splitVars, embedVars>>

exceptFs == <<syncVars, watchVars, connVars, trashVars, serverVars, pipelineVars, epVars, splitVars, embedVars>>

exceptEp == <<syncVars, watchVars, connVars, trashVars, serverVars, pipelineVars, fsVars, splitVars, embedVars>>

exceptSplit == <<syncVars, watchVars, connVars, trashVars, serverVars, pipelineVars, fsVars, epVars, embedVars>>

exceptEmbed == <<syncVars, watchVars, connVars, trashVars, serverVars, pipelineVars, fsVars, epVars, splitVars>>

\* The components neither a sync nor a note handler touches.
besideNotes == <<watchVars, connVars, trashVars, serverVars, pipelineVars, fsVars, splitVars, embedVars>>

\* The components neither a sync nor create_connection touches.
besideConn == <<watchVars, trashVars, serverVars, pipelineVars, fsVars, epVars, splitVars, embedVars>>

besideEmbed == <<watchVars, connVars, trashVars, serverVars, pipelineVars, fsVars, epVars, splitVars>>

vars == <<syncVars, others>>

Op(o, p, a, c) == [op |-> o, path |-> p, arg |-> a, content |-> c]

RECURSIVE Flatten(_)
Flatten(ss_) == IF ss_ = <<>> THEN <<>> ELSE Head(ss_) \o Flatten(Tail(ss_))

RECURSIVE SetToSeq(_)
SetToSeq(S) ==
    IF S = {} THEN <<>>
    ELSE LET x == CHOOSE y \in S : TRUE IN <<x>> \o SetToSeq(S \ {x})

\* sync.py Pass 0, one stored path that is not on disk
PruneOps(p) ==
    << Op("del_tagged_in", p, "", NoContent), Op("del_links_in", p, "", NoContent),
       Op("del_links_out", p, "", NoContent), Op("del_chunks", p, "", NoContent),
       Op("del_note", p, "", NoContent) >>

\* sync.py Pass 1, one note
UpsertOps(n) == << Op("upsert", n.path, n.title, n.content) >>

\* sync.py Pass 2, one note
RelationOps(n) ==
    << Op("del_tagged_in", n.path, "", NoContent),
       Op("del_links_in", n.path, "", NoContent) >>
    \o Flatten([i \in 1..Cardinality(n.tags) |->
                  << Op("upsert_tag", n.path, SetToSeq(n.tags)[i], NoContent),
                     Op("relate_tag", n.path, SetToSeq(n.tags)[i], NoContent) >>])
    \o [i \in 1..Len(n.links) |-> Op("select_link", n.path, n.links[i], NoContent)]

\* The queries _sync_structural_unlocked issues after reading the corpus
\* (notes) and the stored paths, in order.  A select_link is followed by a
\* relate_link when it finds a target (see StructStep).
Plan(notes, stored) ==
    LET disk_paths == {notes[i].path : i \in DOMAIN notes}
        prune == SelectSeq(SortedSeq(stored), LAMBDA p : p # "" /\ p \notin disk_paths)
    IN Flatten([i \in 1..Len(prune) |-> PruneOps(prune[i])])
       \o (IF Len(prune) > 0 THEN << Op("del_orphan_tags", "", "", NoContent) >> ELSE <<>>)
       \o Flatten([i \in 1..Len(notes) |-> UpsertOps(notes[i])])
       \o Flatten([i \in 1..Len(notes) |-> RelationOps(notes[i])])

\* The store after one query of the pass.
Exec(g, o) ==
    CASE o.op = "del_tagged_in" -> QDeleteTaggedIn(g, o.path)
      [] o.op = "del_links_in" -> QDeleteLinksIn(g, o.path)
      [] o.op = "del_links_out" -> QDeleteLinksOut(g, o.path)
      [] o.op = "del_chunks" -> QDeleteChunks(g, o.path)
      [] o.op = "del_note" -> QDeleteNote(g, o.path)
      [] o.op = "del_orphan_tags" -> QDeleteOrphanTags(g)
      [] o.op = "upsert" -> QUpsertNote(g, o.path, o.arg, o.content)
      [] o.op = "upsert_tag" -> QUpsertTag(g, o.arg)
      [] o.op = "relate_tag" -> QRelateTagged(g, o.path, o.arg)
      [] o.op = "select_link" -> g
      [] o.op = "relate_link" -> QRelateLinks(g, o.path, o.arg)

\* stats after one query of the pass
Count(st, o) ==
    CASE o.op = "del_note" -> [st EXCEPT !.pruned = @ + 1]
      [] o.op = "upsert" -> [st EXCEPT !.notes = @ + 1]
      [] o.op = "relate_tag" -> [st EXCEPT !.tags = @ + 1]
      [] o.op = "relate_link" -> [st EXCEPT !.links = @ + 1]
      [] OTHER -> st

ZeroStats == [notes |-> 0, tags |-> 0, links |-> 0, pruned |-> 0]
SsIdle == [pc |-> "idle", notes |-> <<>>, todo |-> <<>>, stats |-> ZeroStats]

InStructuralBody(t) == ss[t].pc \in {"read", "stored", "run"}

\* Bounds of a run: corpus changes and sync calls, when operations run one
\* at a time, when they overlap, and when two semantic passes overlap.
SerialEdits == 2
SerialRuns == 3
RaceEdits == 1
RaceRuns == 3
SettleEdits == 1
SettleRuns == 4

AllIdle ==
    /\ \A t \in StructThreads : ss[t].pc = "idle"
    /\ \A m \in SemThreads : sem[m].pc = "idle"
    /\ \A h \in DOMAIN ep : ep[h].pc = "idle"

\* A new operation may begin (when operations do not overlap: only at rest).
MayBegin == sched.serial => AllIdle

NoLast ==
    [valid |-> FALSE, note |-> {}, tagged_with |-> EmptyBag, links_to |-> EmptyBag,
     changes |-> <<>>]

\* A lock acquisition that does not wait for the holder.
LockFreeNoWait == TRUE

\* "with _structural_lock" can be entered
LockFree == structural_lock = FALSE

\* sync_structural is called (watcher callback, endpoint, CLI)
StructCall(t) ==
    /\ t \in sched.structs
    /\ ss[t].pc = "idle"
    /\ MayBegin
    /\ runs < sched.maxRuns
    /\ ss' = [ss EXCEPT ![t].pc = "lock"]
    /\ runs' = runs + 1
    /\ phase' = IF AllIdle THEN 1 ELSE 0
    /\ UNCHANGED others
    /\ UNCHANGED <<disk, db, structural_lock, sem, sched, edits, last, lastSem>>

\* sync_structural: enter "with _structural_lock"
Acquire(t) ==
    /\ ss[t].pc = "lock"
    /\ LockFree
    /\ structural_lock' = TRUE
    /\ ss' = [ss EXCEPT ![t].pc = "read"]
    /\ UNCHANGED others
    /\ UNCHANGED <<disk, db, sem, sched, edits, runs, last, lastSem, phase>>

\* notes = read_all_notes(notes_path)
StructRead(t) ==
    /\ ss[t].pc = "read"
    /\ ss' = [ss EXCEPT ![t].pc = "stored", ![t].notes = ReadAllNotes(disk)]
    /\ UNCHANGED others
    /\ UNCHANGED <<disk, db, structural_lock, sem, sched, edits, runs, last, lastSem, phase>>

\* stored = db.query("SELECT path FROM note")
StructStored(t) ==
    /\ ss[t].pc = "stored"
    /\ ss' = [ss EXCEPT ![t].pc = "run",
                        ![t].todo = Plan(ss[t].notes, QStoredPaths(db))]
    /\ UNCHANGED others
    /\ UNCHANGED <<disk, db, structural_lock, sem, sched, edits, runs, last, lastSem, phase>>

\* the next db.query of the pass
StructStep(t) ==
    /\ ss[t].pc = "run"
    /\ ss[t].todo # <<>>
    /\ LET o == Head(ss[t].todo)
           found == o.op = "select_link" /\ IdsByTitle(db, o.arg) # {}
       IN /\ db' = Exec(db, o)
          /\ ss' = [ss EXCEPT
                ![t].todo = (IF found THEN << [o EXCEPT !.op = "relate_link"] >> ELSE <<>>)
                            \o Tail(ss[t].todo),
                ![t].stats = Count(ss[t].stats, o)]
    /\ UNCHANGED others
    /\ UNCHANGED <<disk, structural_lock, sem, sched, edits, runs, last, lastSem, phase>>

\* return stats, leaving "with _structural_lock"
StructReturn(t) ==
    /\ ss[t].pc = "run"
    /\ ss[t].todo = <<>>
    /\ structural_lock' = FALSE
    /\ ss' = [ss EXCEPT ![t] = SsIdle]
    /\ last' = IF sched.serial
               THEN [valid |-> TRUE,
                     note |-> {[n EXCEPT !.content_hash = NoHash] : n \in db.note},
                     tagged_with |-> db.tagged_with, links_to |-> db.links_to,
                     changes |-> <<>>]
               ELSE last
    /\ phase' = IF phase = 1 THEN 2 ELSE 0
    /\ UNCHANGED others
    /\ UNCHANGED <<disk, db, sem, sched, edits, runs, lastSem>>

\* ----------------------------------------------------------- semantic sync

SemStats == [processed |-> 0, skipped |-> 0]
SemIdle ==
    [pc |-> "idle", files |-> <<>>, hash_map |-> <<>>, cur |-> "", file_hash |-> NoHash,
     chunks |-> <<>>, idx |-> 0, stats |-> SemStats, invoked |-> {}, failed |-> {}]

NoLastSem == [valid |-> FALSE, failed |-> {}, changes |-> <<>>]

\* The loop moves on to the next file, counting this one as skipped.
Skip(r) ==
    [r EXCEPT !.pc = "loop", !.files = Tail(@), !.stats.skipped = @ + 1]

\* A failure handler that goes on to store the hash.
ExceptMarksClean(r) == [r EXCEPT !.pc = "sethash"]

\* The except branch: the failure is logged and the file counted as skipped.
Except(r) ==
    [r EXCEPT !.pc = "loop", !.files = Tail(@), !.stats.skipped = @ + 1,
              !.failed = @ \cup {r.cur}]

\* note_files = list_notes(notes_path)
SemList(m) ==
    /\ m \in sched.sems
    /\ sem[m].pc = "idle"
    /\ MayBegin
    /\ runs < sched.maxRuns
    /\ sem' = [sem EXCEPT ![m] = [SemIdle EXCEPT !.pc = "hashes",
                                                   !.files = ListNotes(disk)]]
    /\ runs' = runs + 1
    /\ phase' = IF phase = 2 /\ AllIdle THEN 3 ELSE 0
    /\ UNCHANGED others
    /\ UNCHANGED <<disk, db, structural_lock, ss, sched, edits, last, lastSem>>

\* hash_map = _get_stored_hashes(db)
SemHashes(m) ==
    /\ sem[m].pc = "hashes"
    /\ sem' = [sem EXCEPT ![m].pc = "loop", ![m].hash_map = GetStoredHashes(db)]
    /\ UNCHANGED others
    /\ UNCHANGED <<disk, db, structural_lock, ss, sched, edits, runs, last, lastSem, phase>>

\* content = file_path.read_text(encoding="utf-8").strip(), outside the try:
\* a file that is gone or does not decode raises out of sync_semantic_async
SemRead(m) ==
    /\ sem[m].pc = "loop"
    /\ sem[m].files # <<>>
    /\ LET c == disk[Head(sem[m].files)]
       IN sem' = [sem EXCEPT ![m] =
                    IF ~Readable(c) THEN [@ EXCEPT !.pc = "raised"]
                    ELSE IF c.toks = <<>> THEN Skip(@)
                    ELSE [@ EXCEPT !.pc = "hash", !.cur = Head(sem[m].files)]]
    /\ UNCHANGED others
    /\ UNCHANGED <<disk, db, structural_lock, ss, sched, edits, runs, last, lastSem, phase>>

\* A gate that never finds a note clean.
CleanNever(hash_map, p, h) == FALSE

\* the hash gate: hash_map.get(relative_path) == file_hash
Clean(hash_map, p, h) == p \in DOMAIN hash_map /\ hash_map[p] = h

\* file_hash = compute_file_hash(file_path), outside the try, then the gate
SemHash(m) ==
    /\ sem[m].pc = "hash"
    /\ LET c == disk[sem[m].cur]
       IN sem' = [sem EXCEPT ![m] =
                    IF c = NoFile THEN [@ EXCEPT !.pc = "raised"]
                    ELSE IF Clean(@.hash_map, @.cur, Hash(c)) THEN Skip(@)
                    ELSE [@ EXCEPT !.pc = "load", !.file_hash = Hash(c)]]
    /\ UNCHANGED others
    /\ UNCHANGED <<disk, db, structural_lock, ss, sched, edits, runs, last, lastSem, phase>>

\* pipeline.run_async -> _run_sync up to the write: read the file, split it,
\* embed the windows.  The read or the embedding model may raise.
SemLoad(m) ==
    /\ sem[m].pc = "load"
    /\ LET c == disk[sem[m].cur]
           r == [sem[m] EXCEPT !.invoked = @ \cup {sem[m].cur}]
       IN \E embed_ok \in BOOLEAN :
            sem' = [sem EXCEPT ![m] =
                IF ~Readable(c) \/ ~embed_ok THEN Except(r)
                ELSE IF SplitText(c.toks, ChunkSize, ChunkOverlap) = <<>>
                THEN [r EXCEPT !.pc = "sethash"]
                ELSE [r EXCEPT !.pc = "upsert", !.idx = 0,
                               !.chunks = SplitText(c.toks, ChunkSize, ChunkOverlap)]]
    /\ UNCHANGED others
    /\ UNCHANGED <<disk, db, structural_lock, ss, sched, edits, runs, last, lastSem, phase>>

\* _write_chunks: UPSERT the note
SemUpsert(m) ==
    /\ sem[m].pc = "upsert"
    /\ db' = QUpsertNotePath(db, sem[m].cur)
    /\ sem' = [sem EXCEPT ![m].pc = "delete"]
    /\ UNCHANGED others
    /\ UNCHANGED <<disk, structural_lock, ss, sched, edits, runs, last, lastSem, phase>>

\* _write_chunks: delete old chunks for this document
SemDelete(m) ==
    /\ sem[m].pc = "delete"
    /\ db' = QDeleteChunks(db, sem[m].cur)
    /\ sem' = [sem EXCEPT ![m].pc = "create"]
    /\ UNCHANGED others
    /\ UNCHANGED <<disk, structural_lock, ss, sched, edits, runs, last, lastSem, phase>>

\* _write_chunks: create the next chunk.  With no note at the path the RELATE
\* statement fails; the client may or may not raise on a failed statement.
SemCreate(m) ==
    /\ sem[m].pc = "create"
    /\ LET r == sem[m]
           i == r.idx
       IN /\ db' = QCreateChunk(db, r.cur, r.chunks[i + 1], i)
          /\ \E raises \in {FALSE, FirstIdByPath(db, r.cur) = NoId} :
               sem' = [sem EXCEPT ![m] =
                   IF raises THEN Except(r)
                   ELSE IF i + 1 = Len(r.chunks) THEN [r EXCEPT !.pc = "sethash"]
                   ELSE [r EXCEPT !.idx = i + 1]]
    /\ UNCHANGED others
    /\ UNCHANGED <<disk, structural_lock, ss, sched, edits, runs, last, lastSem, phase>>

\* UPDATE note SET content_hash = $hash WHERE path = $path; processed += 1
SemSetHash(m) ==
    /\ sem[m].pc = "sethash"
    /\ db' = QSetHash(db, sem[m].cur, sem[m].file_hash)
    /\ sem' = [sem EXCEPT ![m].pc = "loop", ![m].files = Tail(@),
                          ![m].stats.processed = @ + 1]
    /\ UNCHANGED others
    /\ UNCHANGED <<disk, structural_lock, ss, sched, edits, runs, last, lastSem, phase>>

\* return stats
SemReturn(m) ==
    /\ sem[m].pc = "loop"
    /\ sem[m].files = <<>>
    /\ sem' = [sem EXCEPT ![m] = SemIdle]
    /\ lastSem' = IF sched.serial
                  THEN [valid |-> TRUE, failed |-> sem[m].failed, changes |-> <<>>]
                  ELSE lastSem
    /\ phase' = 0
    /\ UNCHANGED others
    /\ UNCHANGED <<disk, db, structural_lock, ss, sched, edits, runs, last>>

\* the exception leaves sync_semantic_async: no stats are returned
SemRaise(m) ==
    /\ sem[m].pc = "raised"
    /\ sem' = [sem EXCEPT ![m] = SemIdle]
    /\ lastSem' = IF sched.serial THEN NoLastSem ELSE lastSem
    /\ phase' = 0
    /\ UNCHANGED others
    /\ UNCHANGED <<disk, db, structural_lock, ss, sched, edits, runs, last>>

\* ------------------------------------------------------------- environment

Changed(kind, p) ==
    /\ edits' = edits + 1
    /\ phase' = 0
    /\ last' = IF last.valid
               THEN [last EXCEPT !.changes = Append(@, [kind |-> kind, path |-> p])]
               ELSE last
    /\ lastSem' = IF lastSem.valid
                  THEN [lastSem EXCEPT !.changes = Append(@, [kind |-> kind, path |-> p])]
                  ELSE lastSem

\* A document is created or edited outside the engine.
WriteFile(p, c) ==
    /\ p \in sched.paths
    /\ MayBegin
    /\ edits < sched.maxEdits
    /\ c # disk[p]
    /\ disk' = [disk EXCEPT ![p] = c]
    /\ Changed(IF disk[p] = NoFile THEN "create" ELSE "edit", p)
    /\ UNCHANGED others
    /\ UNCHANGED <<db, structural_lock, ss, sem, sched, runs>>

\* A document is removed outside the engine.
RemoveFile(p) ==
    /\ p \in sched.paths
    /\ MayBegin
    /\ edits < sched.maxEdits
    /\ disk[p] # NoFile
    /\ disk' = [disk EXCEPT ![p] = NoFile]
    /\ Changed("delete", p)
    /\ UNCHANGED others
    /\ UNCHANGED <<db, structural_lock, ss, sem, sched, runs>>

\* ------------------------------------------------------- watcher debounce

\* self._debounce_seconds, in ticks
Debounce == 2

\* Bounds of a run of the watcher: events delivered and time elapsed.
WatchEvents == 3
WatchTime == 6

NoTimer == 0

\* The file-system events watchdog delivers to on_created, on_modified, on_deleted.
FsEvents ==
    [kind : {"created", "modified", "deleted"}, is_directory : BOOLEAN,
     src_path : {[stem |-> "test", suffix |-> ".md"], [stem |-> "image", suffix |-> ".png"]}]

\* _is_markdown: path.endswith(".md")
IsMarkdown(path) == path.suffix = ".md"

\* the guard of on_created, on_modified and on_deleted
Qualifies(e) == ~e.is_directory /\ IsMarkdown(e.src_path)

\* NoteChangeHandler.__init__
WatchInit ==
    /\ now = 0
    /\ timer = NoTimer
    /\ timers = <<>>
    /\ wlock = FALSE
    /\ hpc = "idle"
    /\ events = <<>>
    /\ seen = 0
    /\ calls = <<>>
    /\ acc = [kind |-> "none", locked |-> TRUE]

\* A Timer whose interval has elapsed leaves its wait before anything else
\* happens at that instant.
Due == {i \in DOMAIN timers : timers[i].st = "waiting" /\ timers[i].due <= now}

\* Timer threads that are running _fire.
Firing == {i \in DOMAIN timers : timers[i].st \in {"clear", "call"}}

\* on_created / on_modified / on_deleted, called by the observer thread
OnEvent(e) ==
    /\ hpc = "idle"
    /\ seen < WatchEvents
    /\ Due = {}
    /\ seen' = seen + 1
    /\ IF Qualifies(e)
       THEN hpc' = "lock" /\ events' = Append(events, now)
       ELSE UNCHANGED <<hpc, events>>
    /\ UNCHANGED <<now, timer, timers, wlock, calls, acc>>
    /\ UNCHANGED exceptWatch

\* _schedule_sync: with self._lock
SchedLock ==
    /\ hpc = "lock"
    /\ wlock = FALSE
    /\ wlock' = TRUE
    /\ hpc' = "cancel"
    /\ UNCHANGED <<now, timer, timers, events, seen, calls, acc>>
    /\ UNCHANGED exceptWatch

\* _schedule_sync: if self._timer is not None: self._timer.cancel()
\* (cancel stops a Timer only while it is still waiting)
SchedCancel ==
    /\ hpc = "cancel"
    /\ acc' = [kind |-> "read", locked |-> wlock]
    /\ timers' = IF timer # NoTimer /\ timers[timer].st = "waiting"
                 THEN [timers EXCEPT ![timer].st = "cancelled"]
                 ELSE timers
    /\ hpc' = "start"
    /\ UNCHANGED <<now, timer, wlock, events, seen, calls>>
    /\ UNCHANGED exceptWatch

\* _schedule_sync with self._timer.start() left out: the Timer is made and
\* assigned, and never runs.
SchedStartUnstarted ==
    /\ hpc = "start"
    /\ timers' = Append(timers, [st |-> "created", due |-> now + Debounce])
    /\ timer' = Len(timers) + 1
    /\ acc' = [kind |-> "write", locked |-> wlock]
    /\ hpc' = "unlock"
    /\ UNCHANGED <<now, wlock, events, seen, calls>>
    /\ UNCHANGED exceptWatch

\* _schedule_sync: self._timer = threading.Timer(...); self._timer.start()
SchedStart ==
    /\ hpc = "start"
    /\ timers' = Append(timers, [st |-> "waiting", due |-> now + Debounce])
    /\ timer' = Len(timers) + 1
    /\ acc' = [kind |-> "write", locked |-> wlock]
    /\ hpc' = "unlock"
    /\ UNCHANGED <<now, wlock, events, seen, calls>>
    /\ UNCHANGED exceptWatch

\* _schedule_sync: leaving "with self._lock"
SchedUnlock ==
    /\ hpc = "unlock"
    /\ wlock' = FALSE
    /\ hpc' = "idle"
    /\ UNCHANGED <<now, timer, timers, events, seen, calls, acc>>
    /\ UNCHANGED exceptWatch

\* threading.Timer.run: the wait times out and the timer was not cancelled
Expire(i) ==
    /\ i \in Due
    /\ timers' = [timers EXCEPT ![i].st = "clear"]
    /\ UNCHANGED <<now, timer, wlock, hpc, events, seen, calls, acc>>
    /\ UNCHANGED exceptWatch

\* _fire: self._timer = None  (self._lock is not taken)
FireClear(i) ==
    /\ i \in DOMAIN timers
    /\ timers[i].st = "clear"
    /\ timer' = NoTimer
    /\ acc' = [kind |-> "write", locked |-> FALSE]
    /\ timers' = [timers EXCEPT ![i].st = "call"]
    /\ UNCHANGED <<now, wlock, hpc, events, seen, calls>>
    /\ UNCHANGED exceptWatch

\* _fire: self._on_change(), an exception logged
FireCall(i) ==
    /\ i \in DOMAIN timers
    /\ timers[i].st = "call"
    /\ calls' = Append(calls, now)
    /\ timers' = [timers EXCEPT ![i].st = "done"]
    /\ UNCHANGED <<now, timer, wlock, hpc, events, seen, acc>>
    /\ UNCHANGED exceptWatch

\* Time passes while no thread is in the middle of the handler's code.
Tick ==
    /\ now < WatchTime
    /\ hpc = "idle"
    /\ Due = {} /\ Firing = {}
    /\ now' = now + 1
    /\ UNCHANGED <<timer, timers, wlock, hpc, events, seen, calls, acc>>
    /\ UNCHANGED exceptWatch

\* --------------------------------------------------- agent-declared edges

\* Identifiers are the strings the agent passes, as sequences of characters.
Lowercase ==
    {"a", "b", "c", "d", "e", "f", "g", "h", "i", "k", "l", "m", "n", "o", "p", "r",
     "s", "t", "u", "w", "y"}
Uppercase == {"K", "P", "T"}
WordChars == Lowercase \cup Uppercase \cup {"0", "1", "_"}

\* str.lower() of one character
ToLower(c) == CASE c = "K" -> "k" [] c = "P" -> "p" [] c = "T" -> "t" [] OTHER -> c

\* re.sub(r"[^a-zA-Z0-9_]", "_", name).lower()
SanitizeIdentifier(name) ==
    [i \in DOMAIN name |-> ToLower(IF name[i] \in WordChars THEN name[i] ELSE "_")]

T_note == <<"n", "o", "t", "e">>
T_tag == <<"t", "a", "g">>
T_memory == <<"m", "e", "m", "o", "r", "y">>
T_chunk == <<"c", "h", "u", "n", "k">>
T_tagged_with == <<"t", "a", "g", "g", "e", "d", "_", "w", "i", "t", "h">>
T_links_to == <<"l", "i", "n", "k", "s", "_", "t", "o">>
T_from_document ==
    <<"f", "r", "o", "m", "_", "d", "o", "c", "u", "m", "e", "n", "t">>
T_person == <<"p", "e", "r", "s", "o", "n">>
T_knows == <<"k", "n", "o", "w", "s">>
T_about == <<"a", "b", "o", "u", "t">>

ReservedEntityTables == {T_tag, T_chunk, T_tagged_with, T_links_to, T_from_document}

ReservedRelationshipTables ==
    {T_note, T_tag, T_memory, T_chunk, T_tagged_with, T_links_to, T_from_document}

\* the reserved-name loop of create_connection: the first offending label, or "" if none
ReservedNone(src_table, tgt_table, rel_type) == ""

ReservedLabel(src_table, tgt_table, rel_type) ==
    IF src_table \in ReservedEntityTables THEN "source_type"
    ELSE IF tgt_table \in ReservedEntityTables THEN "target_type"
    ELSE IF rel_type \in ReservedRelationshipTables THEN "relationship"
    ELSE ""

\* _ENTITY_LOOKUP: the tables that are looked up, never created
EntityLookupNone == {}

EntityLookup == {T_note, T_memory}

\* Bounds: record ids of one table, calls of create_connection when they
\* overlap and when they run one at a time, calls of store_memory.
ConnIds == 2
ConnRaceCalls == 2
ConnSerialCalls == 2
MemCalls == 2
MemRaceCalls == 1

ConnThreads == {"k1", "k2"}

\* What the agent passes to create_connection.
ConnTypes ==
    {T_person, T_note, T_memory, <<"T", "a", "g">>,
     <<"l", "i", "n", "k", "s", "-", "t", "o">>}
ConnRelationships ==
    {T_knows, <<"K", "n", "o", "w", "s">>, T_about, T_memory,
     <<"t", "a", "g", "g", "e", "d", "-", "w", "i", "t", "h">>}
ConnNames == {"Alice", "Bob", "Tea", "Gone"}

\* The names the agent gives an endpoint of a type: persons are Alice and
\* Bob, the one note is titled Tea and no note is titled Gone, and what the
\* agent stores as a memory is Tea.
NamesOf(type) ==
    IF type = T_person THEN {"Alice", "Bob"}
    ELSE IF type = T_note THEN {"Tea", "Gone"}
    ELSE {"Tea"}

ConnArgs ==
    {a \in [source_type : ConnTypes, source_name : ConnNames,
            relationship : ConnRelationships,
            target_type : ConnTypes, target_name : ConnNames] :
        /\ a.source_name \in NamesOf(a.source_type)
        /\ a.target_name \in NamesOf(a.target_type)}

\* Overlapping calls are explored over the persons and the note, and the
\* relation knows in two spellings.
ConnRaceArgs ==
    {a \in ConnArgs :
        /\ {a.source_type, a.target_type} \subseteq {T_person, T_note}
        /\ {a.source_name, a.target_name} \subseteq {"Alice", "Bob", "Tea"}
        /\ SanitizeIdentifier(a.relationship) = T_knows}

NoArgs ==
    [source_type |-> <<>>, source_name |-> "", relationship |-> <<>>,
     target_type |-> <<>>, target_name |-> ""]

\* Records of the entity tables [tb, id, key], key being the title of a
\* note, the content of a memory and the name of any other entity.
Matching(E, tb, key) == {r \in E : r.tb = tb /\ r.key = key}

RecordId(r) == [tb |-> r.tb, id |-> r.id]

\* SELECT VALUE id FROM tb WHERE field = $val, in the order of the table scan
\* (by record id)
SelectIds(E, tb, key) == {RecordId(r) : r \in Matching(E, tb, key)}

\* (SELECT VALUE id ...)[0]: the first record id, NONE when there is none
NoRecord == [tb |-> <<>>, id |-> 0]

First(ids) == IF ids = {} THEN NoRecord ELSE CHOOSE r \in ids : \A q \in ids : r.id <= q.id

\* Ids a new record of table tb can get: the store draws them at random.
FreeIds(E, tb) == (1..ConnIds) \ {r.id : r \in {q \in E : q.tb = tb}}

\* UPSERT tb SET name = $name WHERE name = $name
QUpsertEntity(E, tb, name, id) ==
    IF Matching(E, tb, name) # {} THEN E ELSE E \cup {[tb |-> tb, id |-> id, key |-> name]}

\* SELECT VALUE id FROM rel WHERE in = (..)[0] AND out = (..)[0] LIMIT 1
QExisting(G, rel, ins, outs) ==
    [rel |-> rel, in |-> First(ins), out |-> First(outs)] \in DOMAIN G

\* RELATE (..)->rel->(..): one edge from every source record to every target record
QRelate(G, rel, ins, outs) ==
    G (+) [e \in {[rel |-> rel, in |-> i, out |-> o] : i \in ins, o \in outs} |-> 1]

CcIdle ==
    [pc |-> "idle", arg |-> NoArgs, src_table |-> <<>>, tgt_table |-> <<>>,
     rel_type |-> <<>>, existing |-> FALSE, result |-> "", queries |-> 0,
     pre |-> [ents |-> {}, edges |-> EmptyBag, tables |-> {}]]

\* The store after a sync of one note titled Tea, before any agent tool call.
ConnInit ==
    /\ ents = {[tb |-> T_note, id |-> 1, key |-> "Tea"]}
    /\ edges = EmptyBag
    /\ tables = {}
    /\ cc = [t \in ConnThreads |-> CcIdle]

\* No agent tool is called.
ConnOff ==
    conn = [serial |-> TRUE, calls |-> 0, mems |-> 0, maxCalls |-> 0, maxMems |-> 0,
            args |-> {}]

ConnIdle == \A t \in ConnThreads : cc[t].pc = "idle"

\* create_connection is called: identifiers are sanitized and reserved names refused
ConnCall(t, a) ==
    /\ cc[t].pc = "idle"
    /\ a \in conn.args
    /\ conn.calls < conn.maxCalls
    /\ conn.serial => ConnIdle
    /\ LET src_table == SanitizeIdentifier(a.source_type)
           tgt_table == SanitizeIdentifier(a.target_type)
           rel_type == SanitizeIdentifier(a.relationship)
           label == ReservedLabel(src_table, tgt_table, rel_type)
       IN cc' = [cc EXCEPT ![t] =
                    [CcIdle EXCEPT !.pc = IF label = "" THEN "source" ELSE "done",
                                   !.arg = a,
                                   !.src_table = src_table,
                                   !.tgt_table = tgt_table,
                                   !.rel_type = rel_type,
                                   !.result = IF label = "" THEN "" ELSE "reserved",
                                   !.pre = IF conn.serial
                                           THEN [ents |-> ents, edges |-> edges,
                                                 tables |-> tables]
                                           ELSE CcIdle.pre]]
    /\ conn' = [conn EXCEPT !.calls = @ + 1]
    /\ UNCHANGED <<ents, edges, tables>>
    /\ UNCHANGED exceptConn

\* _resolve_entity(db, table, identifier): the store after it and whether it found or made the record
ResolveEntity(t, tb, key, next, missing) ==
    IF tb \in EntityLookup
    THEN /\ ents' = ents
         /\ cc' = [cc EXCEPT ![t].queries = @ + 1,
                             ![t].pc = IF Matching(ents, tb, key) # {} THEN next ELSE "done",
                             ![t].result =
                                 IF Matching(ents, tb, key) # {} THEN "" ELSE missing]
    ELSE /\ \/ Matching(ents, tb, key) # {} /\ ents' = ents
            \/ /\ Matching(ents, tb, key) = {}
               /\ \E id \in FreeIds(ents, tb) : ents' = QUpsertEntity(ents, tb, key, id)
         /\ cc' = [cc EXCEPT ![t].queries = @ + 1, ![t].pc = next]

\* if not _resolve_entity(_db, src_table, source_name): return "Source ... not found."
ResolveSource(t) ==
    /\ cc[t].pc = "source"
    /\ ResolveEntity(t, cc[t].src_table, cc[t].arg.source_name, "target", "source not found")
    /\ UNCHANGED <<edges, tables, conn>>
    /\ UNCHANGED exceptConn

\* if not _resolve_entity(_db, tgt_table, target_name): return "Target ... not found."
ResolveTarget(t) ==
    /\ cc[t].pc = "target"
    /\ ResolveEntity(t, cc[t].tgt_table, cc[t].arg.target_name, "define", "target not found")
    /\ UNCHANGED <<edges, tables, conn>>
    /\ UNCHANGED exceptConn

\* DEFINE TABLE OVERWRITE rel_type TYPE RELATION
DefineTable(t) ==
    /\ cc[t].pc = "define"
    /\ tables' = tables \cup {cc[t].rel_type}
    /\ cc' = [cc EXCEPT ![t].queries = @ + 1, ![t].pc = "existing"]
    /\ UNCHANGED <<ents, edges, conn>>
    /\ UNCHANGED exceptConn

\* existing = _db.query("SELECT VALUE id FROM rel_type WHERE in = .. AND out = .. LIMIT 1")
SelectExisting(t) ==
    /\ cc[t].pc = "existing"
    /\ LET ins == SelectIds(ents, cc[t].src_table, cc[t].arg.source_name)
           outs == SelectIds(ents, cc[t].tgt_table, cc[t].arg.target_name)
           found == QExisting(edges, cc[t].rel_type, ins, outs)
       IN cc' = [cc EXCEPT ![t].queries = @ + 1,
                           ![t].existing = found,
                           ![t].pc = IF found THEN "done" ELSE "relate",
                           ![t].result = IF found THEN "connected" ELSE ""]
    /\ UNCHANGED <<ents, edges, tables, conn>>
    /\ UNCHANGED exceptConn

\* if not existing: _db.query("RELATE (..)->rel_type->(..)")
Relate(t) ==
    /\ cc[t].pc = "relate"
    /\ LET ins == SelectIds(ents, cc[t].src_table, cc[t].arg.source_name)
           outs == SelectIds(ents, cc[t].tgt_table, cc[t].arg.target_name)
       IN edges' = QRelate(edges, cc[t].rel_type, ins, outs)
    /\ cc' = [cc EXCEPT ![t].queries = @ + 1, ![t].pc = "done", ![t].result = "connected"]
    /\ UNCHANGED <<ents, tables, conn>>
    /\ UNCHANGED exceptConn

\* create_connection returns its message
ConnReturn(t) ==
    /\ cc[t].pc = "done"
    /\ cc' = [cc EXCEPT ![t] = CcIdle]
    /\ UNCHANGED <<ents, edges, tables, conn>>
    /\ UNCHANGED exceptConn

\* store_memory: CREATE memory SET mid = rand::uuid(), type = $type, content = $content
StoreMemory(content) ==
    /\ conn.mems < conn.maxMems
    /\ conn.serial => ConnIdle
    /\ \E id \in FreeIds(ents, T_memory) :
           ents' = ents \cup {[tb |-> T_memory, id |-> id, key |-> content]}
    /\ conn' = [conn EXCEPT !.mems = @ + 1]
    /\ UNCHANGED <<edges, tables, cc>>
    /\ UNCHANGED exceptConn

\* ------------------------------------------------- trash, restore, rename

\* A corpus-relative path is a folder and the name of a file; the name is
\* a word followed by timestamps, [stem |-> "Same", stamps |-> <<1>>]
\* standing for Same_<timestamp of second 1>.md.
Dirs == {"", "sub"}
Stems == {"Same", "Other"}

\* Bounds: seconds of the clock, operations of a run, timestamps in a name.
TrashTime == 1
TrashOps == 6
MaxStamps == 2

Name(stem, stamps) == [stem |-> stem, stamps |-> stamps]

\* Paths of the files the user writes: a word, or a word that already
\* carries a timestamp.
UserPaths ==
    {[dir |-> "", name |-> Name("Same", <<>>)], [dir |-> "sub", name |-> Name("Same", <<>>)],
     [dir |-> "", name |-> Name("Same", <<0>>)]}

\* Every path a file can come to have; requests name a file that exists
\* or one of the paths the user writes.
AllPaths ==
    [dir : Dirs,
     name : [stem : Stems,
             stamps : UNION {[1..n -> 0..TrashTime] : n \in 0..MaxStamps}]]

\* Titles asked of rename_note; the empty one is refused as invalid.
NewTitles == {Name(s, <<>>) : s \in Stems \cup {""}}

\* A note's text: a body and at most one wikilink, [[title]].
NoLink == Name("", <<>>)
Texts ==
    {[body |-> "v1", link |-> NoLink], [body |-> "v2", link |-> NoLink],
     [body |-> "v2", link |-> Name("Same", <<>>)]}

\* trash_path.with_stem(f"{trash_path.stem}_{ts}")
WithStamp(path, ts) == [path EXCEPT !.name.stamps = Append(@, ts)]

\* old_path.with_name(f"{new_title}.md")
WithName(path, new_title) == [path EXCEPT !.name = new_title]

\* file_path.stem
Stem(path) == path.name

\* A directory tree as a function from the paths of its files to their content.
NoFiles == <<>>

Put(files, path, text) == [q \in DOMAIN files \cup {path} |-> IF q = path THEN text ELSE files[q]]

Drop(files, path) == [q \in DOMAIN files \ {path} |-> files[q]]

\* sync_structural, as far as the note rows go: a row per file of the corpus
SyncNotes(files) == {[path |-> p, title |-> Stem(p)] : p \in DOMAIN files}

\* _delete_note_from_graph
DeleteNoteFromGraph(rows, path) == {r \in rows : r.path # path}

\* rewrite_wikilinks: [[old_title]] becomes [[new_title]] in every note
RewriteWikilinks(files, old_title, new_title) ==
    [q \in DOMAIN files |->
        IF files[q].link = old_title THEN [files[q] EXCEPT !.link = new_title] ELSE files[q]]

\* the title checks of rename_note
InvalidTitle(new_title) == new_title.stem = ""

NoOp ==
    [op |-> "none", path |-> [dir |-> "", name |-> NoLink], result |-> "",
     to |-> [dir |-> "", name |-> NoLink], text |-> [body |-> "", link |-> NoLink],
     origin |-> [dir |-> "", name |-> NoLink], at |-> 0, free |-> FALSE]

\* The deletion that put the file of a trash entry there: the path it was
\* deleted from, its text, and the number of the operation.
Held(entry) ==
    LET is == {i \in DOMAIN held : held[i].entry = entry}
    IN IF is = {} THEN [entry |-> entry, text |-> NoOp.text, origin |-> NoOp.origin, at |-> 0]
       ELSE held[CHOOSE i \in is : \A j \in is : j <= i]

\* What an operation was asked, how it ended, the path it moved the file
\* to and the text of the file it was about; of a restore also the deletion
\* that made the entry and whether the path deleted from was free.
Done(op, path, result, to, files) ==
    [op |-> op, path |-> path, result |-> result, to |-> to,
     text |-> IF path \in DOMAIN files THEN files[path] ELSE NoOp.text,
     origin |-> IF op = "restore" THEN Held(path).origin ELSE NoOp.origin,
     at |-> IF op = "restore" THEN Held(path).at ELSE 0,
     free |-> op = "restore" /\ Held(path).origin \notin DOMAIN corpus]

TrashInit ==
    /\ corpus = NoFiles
    /\ trash = NoFiles
    /\ gnotes = {}
    /\ gq = 0
    /\ clock = 0
    /\ tops = 0
    /\ tlast = NoOp
    /\ held = <<>>

\* One more operation is recorded.
Record(r) ==
    /\ tops' = tops + 1
    /\ tlast' = r

\* the name-collision branch of move_to_trash
TrashPath(path) == IF path \in DOMAIN trash THEN WithStamp(path, clock) ELSE path

\* restore_from_trash: where the entry is put back
OriginalPath(trash_relative_path) == trash_relative_path

\* A file is written into the notes directory (write_note, or an editor).
WriteNote(path, text) ==
    /\ tops < TrashOps
    /\ corpus' = Put(corpus, path, text)
    /\ Record(Done("write", path, "ok", path, corpus'))
    /\ UNCHANGED <<trash, gnotes, gq, clock, held>>
    /\ UNCHANGED exceptTrash

\* DELETE /corpus/file/{path}: delete_note, then _delete_note_from_graph
NotesDelete(path) ==
    /\ tops < TrashOps
    /\ path \in DOMAIN corpus \cup UserPaths
    /\ IF path \notin DOMAIN corpus
       THEN /\ Record(Done("delete", path, "not found", path, corpus))
            /\ UNCHANGED <<corpus, trash, gnotes, gq, held>>
       ELSE LET trash_path == TrashPath(path)
            IN /\ Len(trash_path.name.stamps) <= MaxStamps
               /\ trash' = Put(trash, trash_path, corpus[path])  \* shutil.move replaces a file at trash_path
               /\ corpus' = Drop(corpus, path)
               /\ gnotes' = DeleteNoteFromGraph(gnotes, path)
               /\ gq' = gq + 1
               /\ held' = Append(held, [entry |-> trash_path, text |-> corpus[path],
                                        origin |-> path, at |-> tops + 1])
               /\ Record(Done("delete", path, "ok", trash_path, corpus))
    /\ UNCHANGED clock
    /\ UNCHANGED exceptTrash

\* POST /corpus/trash/{path}/restore: restore_from_trash, then sync_structural
NotesRestore(trash_relative_path) ==
    /\ tops < TrashOps
    /\ trash_relative_path \in DOMAIN trash \cup UserPaths
    /\ LET original_path == OriginalPath(trash_relative_path)
       IN IF trash_relative_path \notin DOMAIN trash
          THEN /\ Record(Done("restore", trash_relative_path, "not found", original_path, trash))
               /\ UNCHANGED <<corpus, trash, gnotes, gq, held>>
          ELSE IF original_path \in DOMAIN corpus
          THEN /\ Record(Done("restore", trash_relative_path, "conflict", original_path, trash))
               /\ UNCHANGED <<corpus, trash, gnotes, gq, held>>
          ELSE /\ corpus' = Put(corpus, original_path, trash[trash_relative_path])
               /\ trash' = Drop(trash, trash_relative_path)
               /\ gnotes' = SyncNotes(corpus')
               /\ gq' = gq + 1
               /\ held' = SelectSeq(held, LAMBDA h : h.entry # trash_relative_path)
               /\ Record(Done("restore", trash_relative_path, "ok", original_path, trash))
    /\ UNCHANGED clock
    /\ UNCHANGED exceptTrash

\* PUT /corpus/file/{path}/rename: rename_note, UPDATE note, rewrite_wikilinks, sync_structural
RenameConflictNever(new_path) == FALSE

RenameConflict(new_path) == new_path \in DOMAIN corpus

NotesRename(path, new_title) ==
    /\ tops < TrashOps
    /\ path \in DOMAIN corpus \cup UserPaths
    /\ LET new_path == WithName(path, new_title)
       IN IF InvalidTitle(new_title)
          THEN /\ Record(Done("rename", path, "invalid", new_path, corpus))
               /\ UNCHANGED <<corpus, gnotes, gq>>
          ELSE IF path \notin DOMAIN corpus
          THEN /\ Record(Done("rename", path, "not found", new_path, corpus))
               /\ UNCHANGED <<corpus, gnotes, gq>>
          ELSE IF RenameConflict(new_path)
          THEN /\ Record(Done("rename", path, "conflict", new_path, corpus))
               /\ UNCHANGED <<corpus, gnotes, gq>>
          ELSE /\ corpus' = RewriteWikilinks(Put(Drop(corpus, path), new_path, corpus[path]),
                                            Stem(path), new_title)
               /\ gnotes' = SyncNotes(corpus')  \* the row the UPDATE moved is upserted again
               /\ gq' = gq + 2
               /\ Record(Done("rename", path, "ok", new_path, corpus))
    /\ UNCHANGED <<trash, clock, held>>
    /\ UNCHANGED exceptTrash

\* A second passes.
TrashTick ==
    /\ clock < TrashTime
    /\ clock' = clock + 1
    /\ UNCHANGED <<corpus, trash, gnotes, gq, tops, tlast, held>>
    /\ UNCHANGED exceptTrash

\* ------------------------------------------------------------ sync endpoints

\* Requests served in a run.
SyncRequests == 5

NoResp == [endpoint |-> "", status |-> 0]
NoPasses == [structural |-> 0, semantic |-> 0]

\* The process is not running: the module-level state is unset.
ServerDown == [up |-> FALSE, db |-> FALSE, pipeline |-> FALSE, notes_dir |-> TRUE]

ServerInit ==
    /\ server = ServerDown
    /\ resp = NoResp
    /\ passes = NoPasses
    /\ reqs = 0

\* A guard that never finds the store missing.
DbMissingNever(s) == FALSE

\* _db is None
DbMissing(s) == ~s.db

\* _pipeline is None
PipelineMissing(s) == ~s.pipeline

Respond(endpoint, status) ==
    /\ resp' = [endpoint |-> endpoint, status |-> status]
    /\ reqs' = reqs + 1

\* lifespan: the store connects or not, the pipeline is built or not, and
\* with a store and notes on disk the startup syncs run.
Lifespan ==
    /\ ~server.up
    /\ \E connected, piped, some_notes \in BOOLEAN :
         /\ piped => connected
         /\ server' = [server EXCEPT !.up = TRUE, !.db = connected, !.pipeline = piped]
         /\ passes' = IF server.notes_dir /\ connected /\ some_notes
                      THEN [structural |-> Min(passes.structural + 1, SyncRequests),
                            semantic |-> IF piped
                                         THEN Min(passes.semantic + 1, SyncRequests)
                                         ELSE passes.semantic]
                      ELSE passes
    /\ UNCHANGED <<resp, reqs>>
    /\ UNCHANGED exceptServer

\* The process stops; its module-level state is gone.
Shutdown ==
    /\ server.up
    /\ server' = [ServerDown EXCEPT !.notes_dir = server.notes_dir]
    /\ UNCHANGED <<resp, passes, reqs>>
    /\ UNCHANGED exceptServer

\* update_settings with a new embedding model or dimension
ReloadPipeline ==
    /\ server.up
    /\ ~DbMissing(server)
    /\ ~server.pipeline
    /\ server' = [server EXCEPT !.pipeline = TRUE]
    /\ UNCHANGED <<resp, passes, reqs>>
    /\ UNCHANGED exceptServer

\* The notes directory appears or disappears.
NotesDirChange ==
    /\ server' = [server EXCEPT !.notes_dir = ~@]
    /\ UNCHANGED <<resp, passes, reqs>>
    /\ UNCHANGED exceptServer

\* POST /sync/structural
SyncStructuralEndpoint ==
    /\ server.up
    /\ reqs < SyncRequests
    /\ IF DbMissing(server) THEN Respond("structural", 503) /\ UNCHANGED passes
       ELSE IF ~server.notes_dir THEN Respond("structural", 400) /\ UNCHANGED passes
       ELSE /\ passes' = [passes EXCEPT !.structural = @ + 1]
            /\ Respond("structural", 200)
    /\ UNCHANGED server
    /\ UNCHANGED exceptServer

\* POST /sync/semantic
SyncSemanticEndpoint ==
    /\ server.up
    /\ reqs < SyncRequests
    /\ IF DbMissing(server) \/ PipelineMissing(server)
       THEN Respond("semantic", 503) /\ UNCHANGED passes
       ELSE IF ~server.notes_dir THEN Respond("semantic", 400) /\ UNCHANGED passes
       ELSE /\ passes' = [passes EXCEPT !.semantic = @ + 1]
            /\ Respond("semantic", 200)
    /\ UNCHANGED server
    /\ UNCHANGED exceptServer

\* POST /sync/full
SyncFullEndpoint ==
    /\ server.up
    /\ reqs < SyncRequests
    /\ IF DbMissing(server) \/ PipelineMissing(server)
       THEN Respond("full", 503) /\ UNCHANGED passes
       ELSE IF ~server.notes_dir THEN Respond("full", 400) /\ UNCHANGED passes
       ELSE /\ passes' = [structural |-> passes.structural + 1,
                          semantic |-> passes.semantic + 1]
            /\ Respond("full", 200)
    /\ UNCHANGED server
    /\ UNCHANGED exceptServer

\* ------------------------------------------------------ pipeline construction

\* embedding_dimensions of the two embedding models the settings switch between
Dimensions == {1, 2}
NoIndex == 0

\* Pipelines constructed in a run (startup, settings reloads, restarts).
Constructs == 3

KgIdle ==
    [pc |-> "idle", built |-> FALSE, dim |-> NoIndex, n |-> 0,
     mismatch |-> FALSE,   \* the index this construction found had another dimension
     migrated |-> FALSE,   \* this construction ran the rebuild sequence
     torn |-> FALSE,       \* a rebuild was cut short and none has completed since
     found_torn |-> FALSE, \* this construction began after a rebuild was cut short
     dropped |-> FALSE,    \* the rebuild of this construction deleted chunks
     runs_at |-> 0]        \* sync calls made when this construction returned

PipelineInit ==
    /\ index = NoIndex
    /\ kg = KgIdle

\* DEFINE INDEX IF NOT EXISTS chunk_embeddings ... DIMENSION dim: whether the
\* statement raises.  With an index of the same dimension it does nothing.
\* With an index of another dimension the handler expects a failure, but the
\* statement is conditional on the index not existing, and a store that
\* honours the condition leaves the index as it is and reports nothing: both
\* outcomes are possible.  With no index, building one over chunks already
\* stored may fail or not.
DefineRaises(ix, dim, chunks) ==
    IF ix = NoIndex THEN (IF chunks = EmptyBag THEN {FALSE} ELSE BOOLEAN)
    ELSE IF ix = dim THEN {FALSE}
    ELSE BOOLEAN

\* KGPipeline(db, notes_path, model, embedding_dimensions) is called at
\* startup or after a settings change, when no sync is running.
Construct(dim) ==
    /\ kg.pc = "idle"
    /\ AllIdle
    /\ kg.n < Constructs
    /\ kg' = [kg EXCEPT !.pc = "define", !.built = FALSE, !.dim = dim, !.n = @ + 1,
                        !.mismatch = index \notin {NoIndex, dim},
                        !.migrated = FALSE, !.found_torn = kg.torn, !.dropped = FALSE]
    /\ UNCHANGED index
    /\ UNCHANGED syncVars
    /\ UNCHANGED exceptPipeline

\* the DEFINE INDEX inside the try
DefineIndex ==
    /\ kg.pc = "define"
    /\ \E raises \in DefineRaises(index, kg.dim, db.chunk) :
         IF raises
         THEN kg' = [kg EXCEPT !.pc = "remove"] /\ UNCHANGED index
         ELSE /\ kg' = [kg EXCEPT !.pc = "return"]
              /\ index' = IF index = NoIndex THEN kg.dim ELSE index
    /\ UNCHANGED syncVars
    /\ UNCHANGED exceptPipeline

\* REMOVE INDEX IF EXISTS chunk_embeddings ON TABLE chunk
RemoveIndex ==
    /\ kg.pc = "remove"
    /\ index' = NoIndex
    /\ kg' = [kg EXCEPT !.pc = "delete", !.torn = TRUE]
    /\ UNCHANGED syncVars
    /\ UNCHANGED exceptPipeline

\* DELETE chunk
DeleteAllChunks ==
    /\ kg.pc = "delete"
    /\ db' = [db EXCEPT !.chunk = EmptyBag]
    /\ kg' = [kg EXCEPT !.pc = "clear", !.dropped = (db.chunk # EmptyBag)]
    /\ UNCHANGED index
    /\ UNCHANGED <<disk, structural_lock, ss, sem, sched, edits, runs, last, lastSem, phase>>
    /\ UNCHANGED <<watchVars, connVars, trashVars, serverVars, fsVars, epVars, embedVars, splitVars>>

\* UPDATE note SET content_hash = NONE
ClearHashes ==
    /\ kg.pc = "clear"
    /\ db' = [db EXCEPT !.note = {[n EXCEPT !.content_hash = NoHash] : n \in @}]
    /\ kg' = [kg EXCEPT !.pc = "redefine"]
    /\ UNCHANGED index
    /\ UNCHANGED <<disk, structural_lock, ss, sem, sched, edits, runs, last, lastSem, phase>>
    /\ UNCHANGED <<watchVars, connVars, trashVars, serverVars, fsVars, epVars, embedVars, splitVars>>

\* the DEFINE INDEX of the except branch
RedefineIndex ==
    /\ kg.pc = "redefine"
    /\ index' = IF index = NoIndex THEN kg.dim ELSE index
    /\ kg' = [kg EXCEPT !.pc = "return", !.migrated = TRUE, !.torn = FALSE]
    /\ UNCHANGED syncVars
    /\ UNCHANGED exceptPipeline

\* __init__ returns: the pipeline is in use
ConstructReturn ==
    /\ kg.pc = "return"
    /\ kg' = [kg EXCEPT !.pc = "idle", !.built = TRUE, !.runs_at = runs]
    /\ UNCHANGED index
    /\ UNCHANGED syncVars
    /\ UNCHANGED exceptPipeline

\* The process dies, or a query fails, inside the constructor.
ConstructCrash ==
    /\ kg.pc \in {"define", "remove", "delete", "clear", "redefine"}
    /\ kg' = [kg EXCEPT !.pc = "idle", !.built = FALSE]
    /\ UNCHANGED index
    /\ UNCHANGED syncVars
    /\ UNCHANGED exceptPipeline

\* sync_semantic(db, pipeline, notes_path) with the constructed pipeline
SemanticSync(m) ==
    /\ kg.built
    /\ kg.pc = "idle"
    /\ SemList(m)

\* ------------------------------------------------------------- path checks

\* Operations in a run.
FsOps == 3

Up == ".."

\* notes_path.resolve(), and the trash directory under it
Root == <<"home", "notes">>
TrashDir == Root \o <<".trash">>

\* A symbolic link inside the corpus that points out of it.
Link == Root \o <<"lnk">>
LinkTarget == <<"etc">>

RECURSIVE ResolveFrom(_, _)
ResolveFrom(base, rest) ==
    IF rest = <<>> THEN base
    ELSE IF Head(rest) = Up
    THEN ResolveFrom(IF base = <<>> THEN base ELSE SubSeq(base, 1, Len(base) - 1), Tail(rest))
    ELSE IF Append(base, Head(rest)) = Link THEN ResolveFrom(LinkTarget, Tail(rest))
    ELSE ResolveFrom(Append(base, Head(rest)), Tail(rest))

\* Path.resolve() of an absolute path: ".." and symbolic links are followed.
\* The operating system reaches the same location through an unresolved path.
Resolve(p) == ResolveFrom(<<>>, p)

\* Path.is_relative_to
IsRelativeTo(p, base) == Len(p) >= Len(base) /\ SubSeq(p, 1, Len(base)) = base

\* _ensure_within_notes_dir raises ValueError
Escapes(file_path) == ~IsRelativeTo(Resolve(file_path), Root)

\* f"{title}.md"
Md(stem) == CASE stem = "a" -> "a.md" [] stem = "b" -> "b.md" [] OTHER -> stem

\* Path(...).with_name(name)
WithFileName(p, name) == Append(SubSeq(p, 1, Len(p) - 1), name)

\* The stem with the timestamp suffix of a trash collision.
Stamped(name) == CASE name = "a.md" -> "a_ts.md" [] name = "b.md" -> "b_ts.md" [] OTHER -> name

\* Relative paths a caller sends: plain, nested, climbing out of the corpus,
\* climbing out and back in, through the link, and into the trash.
RelPaths ==
    { <<"a.md">>, <<"sub", "a.md">>, <<Up, "a.md">>, <<"sub", Up, Up, "a.md">>,
      <<Up, Up, "home", "notes", "a.md">>, <<"lnk", "a.md">>, <<"sub", Up, "a.md">> }

\* Titles and folders a caller sends ("/" separates the components).
Titles == { <<"a">>, <<"b">>, <<Up, Up, "etc", "a">>, <<Up>> }
Folders == { <<>>, <<"sub">>, <<Up, Up, "etc">>, <<"lnk">> }

\* rename_note's validation of new_title
InvalidNewTitle(new_title) == Len(new_title) # 1 \/ new_title = <<Up>>

NoFsOp == [op |-> "", built |-> {}, result |-> "", touched |-> {}, stored |-> FALSE]

FsInit ==
    /\ fsys = {Root \o <<"a.md">>, LinkTarget \o <<"a.md">>}
    /\ fstore = 0
    /\ fop = NoFsOp
    /\ fops = 0

\* The operation ends: the paths it built from its input, how it ended, the
\* locations it created, wrote, moved or deleted, and whether the handler
\* went on to write to the store.
FsDone(op, built, result, files, touched, stored) ==
    /\ fops < FsOps
    /\ fops' = fops + 1
    /\ fsys' = files
    /\ fstore' = IF stored THEN fstore + 1 ELSE fstore
    /\ fop' = [op |-> op, built |-> {Resolve(b) : b \in built}, result |-> result,
               touched |-> touched, stored |-> stored]
    /\ UNCHANGED exceptFs

\* write_note, then the tool's _sync_note_structural
FsWriteNote(title, folder) ==
    LET file_path == Root \o folder \o WithFileName(title, Md(title[Len(title)]))
        at == Resolve(file_path)
    IN IF Escapes(file_path)
       THEN FsDone("write_note", {file_path}, "ValueError", fsys, {}, FALSE)
       ELSE FsDone("write_note", {file_path}, "ok", fsys \cup {at}, {at}, TRUE)

\* rewrite_note (notes_update, edit_note)
FsRewriteNote(relative_path) ==
    LET file_path == Root \o relative_path
        at == Resolve(file_path)
    IN IF Escapes(file_path)
       THEN FsDone("rewrite_note", {file_path}, "ValueError", fsys, {}, FALSE)
       ELSE IF at \notin fsys
       THEN FsDone("rewrite_note", {file_path}, "FileNotFoundError", fsys, {}, FALSE)
       ELSE FsDone("rewrite_note", {file_path}, "ok", fsys, {at}, FALSE)

\* delete_note -> move_to_trash, then _delete_note_from_graph
FsMoveToTrash(relative_path) ==
    LET file_path == Root \o relative_path
        at == Resolve(file_path)
        trash_path == TrashDir \o relative_path
        free == Resolve(trash_path) \notin fsys
        to == IF free THEN Resolve(trash_path)
              ELSE WithFileName(Resolve(trash_path), Stamped(trash_path[Len(trash_path)]))
    IN IF Escapes(file_path)
       THEN FsDone("move_to_trash", {file_path, trash_path}, "ValueError", fsys, {}, FALSE)
       ELSE IF at \notin fsys
       THEN FsDone("move_to_trash", {file_path, trash_path}, "FileNotFoundError",
                   fsys, {}, FALSE)
       ELSE FsDone("move_to_trash", {file_path, trash_path}, "ok",
                   (fsys \ {at}) \cup {to}, {at, to}, TRUE)

\* restore_from_trash, then sync_structural
FsRestoreFromTrash(trash_relative_path) ==
    LET trash_path == Resolve(TrashDir \o trash_relative_path)
        original_path == Root \o trash_relative_path
        to == Resolve(original_path)
        built == {TrashDir \o trash_relative_path, original_path}
    IN IF ~IsRelativeTo(trash_path, Resolve(TrashDir))
       THEN FsDone("restore_from_trash", built, "ValueError", fsys, {}, FALSE)
       ELSE IF trash_path \notin fsys
       THEN FsDone("restore_from_trash", built, "FileNotFoundError", fsys, {}, FALSE)
       ELSE IF Escapes(original_path)
       THEN FsDone("restore_from_trash", built, "ValueError", fsys, {}, FALSE)
       ELSE IF to \in fsys
       THEN FsDone("restore_from_trash", built, "FileExistsError", fsys, {}, FALSE)
       ELSE FsDone("restore_from_trash", built, "ok",
                   (fsys \ {trash_path}) \cup {to}, {trash_path, to}, TRUE)

\* rename_note, then the UPDATE of notes_rename
FsRenameNote(old_relative_path, new_title) ==
    LET file_path == Root \o old_relative_path
        old_path == Resolve(file_path)
        new_path == WithFileName(old_path, Md(new_title[Len(new_title)]))
    IN IF InvalidNewTitle(new_title)
       THEN FsDone("rename_note", {file_path}, "ValueError", fsys, {}, FALSE)
       ELSE IF Escapes(file_path)
       THEN FsDone("rename_note", {file_path}, "ValueError", fsys, {}, FALSE)
       ELSE IF old_path \notin fsys
       THEN FsDone("rename_note", {file_path}, "FileNotFoundError", fsys, {}, FALSE)
       ELSE IF Escapes(new_path)
       THEN FsDone("rename_note", {file_path, new_path}, "ValueError", fsys, {}, FALSE)
       ELSE IF new_path \in fsys
       THEN FsDone("rename_note", {file_path, new_path}, "FileExistsError", fsys, {}, FALSE)
       ELSE FsDone("rename_note", {file_path, new_path}, "ok",
                   (fsys \ {old_path}) \cup {new_path}, {old_path, new_path}, TRUE)

\* ------------------------------------------- note endpoints and note tools

\* The threads that serve requests and tool calls.
Handlers == {"h1", "h2"}
\* The caller of sync_structural on behalf of a handler.
HandlerSync == "s1"

\* Handler calls in a run: one at a time, and overlapping.
NoteOps == 5
NoteEdits == 1
NoteRuns == 1
RaceOps == 2

EpIdle ==
    [pc |-> "idle", op |-> "", path |-> "", to |-> "", old_title |-> "",
     new_title |-> "", content |-> NoContent, existing |-> {}, todo |-> <<>>,
     links_updated |-> 0, result |-> ""]

NoRename ==
    [valid |-> FALSE, from |-> "", to |-> "", old_title |-> "", new_title |-> "",
     insync |-> FALSE, before |-> <<>>, linkers |-> {}, refs |-> 0, count |-> 0,
     began |-> 0, ended |-> 0]

EpInit ==
    /\ ep = [h \in Handlers |-> EpIdle]
    /\ rlog = [n |-> 0, cur |-> NoRename, last |-> NoRename, prev |-> NoRename]

\* Operations begun so far: corpus changes, sync calls and handler calls.
Stamp == edits + runs + rlog.n

\* The run has room for one more operation.
Within == Stamp < sched.maxOps

\* A handler call may begin.
HandlerFree(h) ==
    /\ h \in sched.handlers
    /\ ep[h].pc = "idle"
    /\ MayBegin
    /\ Within

\* The graph is no longer known to be that of the last structural pass.
Unsynced == [last EXCEPT !.valid = FALSE]

\* UPDATE note SET path = $new_path, title = $new_title WHERE path = $old_path
QUpdateNotePath(g, old_path, new_path, new_title) ==
    [g EXCEPT !.note = {IF n.path = old_path
                        THEN [n EXCEPT !.path = new_path, !.title = new_title]
                        ELSE n : n \in @}]

\* DELETE from_document WHERE out = (SELECT VALUE id FROM note WHERE path = $path)[0]
QDeleteFromDocumentOut(g, p) ==
    IF FirstIdByPath(g, p) = NoId THEN g
    ELSE [g EXCEPT !.chunk =
            BagImage(g.chunk,
                     [c \in DOMAIN g.chunk |->
                         IF c.doc = FirstIdByPath(g, p) THEN [c EXCEPT !.doc = NoId] ELSE c])]

\* The ids of the notes with a links_to edge to a note at path p.
Linkers(g, p) == {e[1] : e \in {x \in DOMAIN g.links_to : x[2] \in IdsByPath(g, p)}}

\* pattern.search(content): [[old_title]] or [[old_title|alias]] occurs
MatchesOld(c, old_title) ==
    \E i \in DOMAIN c.toks : c.toks[i].k \in {"link", "alias"} /\ c.toks[i].v = old_title

\* pattern.sub(_replacer, content)
RewriteContent(c, old_title, new_title) ==
    [c EXCEPT !.toks =
        [i \in DOMAIN c.toks |->
            IF c.toks[i].k \in {"link", "alias"} /\ c.toks[i].v = old_title
            THEN [c.toks[i] EXCEPT !.v = new_title]
            ELSE c.toks[i]]]

\* The files rewrite_wikilinks modifies.
RewrittenFiles(d, old_title) ==
    {p \in DOMAIN d : d[p] # NoFile /\ MatchesOld(d[p], old_title)}

\* rewrite_wikilinks: the corpus afterwards
RewriteWikilinksOnDisk(d, old_title, new_title) ==
    [p \in DOMAIN d |->
        IF p \in RewrittenFiles(d, old_title)
        THEN RewriteContent(d[p], old_title, new_title)
        ELSE d[p]]

\* The files whose wikilinks name the title.
Referencing(d, title) ==
    {p \in DOMAIN d : \E i \in DOMAIN ExtractLinks(d[p]) : ExtractLinks(d[p])[i] = title}

\* _delete_note_from_graph: its queries in order, the relation tables sorted by
\* name (no from_document edge leaves a note and no tagged_with edge enters one)
DeleteFromGraphOps(p) ==
    << Op("del_chunks", p, "", NoContent), Op("del_from_document_out", p, "", NoContent),
       Op("del_links_in", p, "", NoContent), Op("del_links_out", p, "", NoContent),
       Op("del_tagged_in", p, "", NoContent), Op("del_note", p, "", NoContent) >>

\* _sync_note_structural: the same queries as a structural pass makes for one note
SyncNoteStructuralOps(n) == UpsertOps(n) \o RelationOps(n)

\* The store after one query of a handler.
ExecNote(g, o) ==
    IF o.op = "del_from_document_out" THEN QDeleteFromDocumentOut(g, o.path)
    ELSE Exec(g, o)

\* A handler step that changes only the handler and the log.
HandlerOnly ==
    /\ UNCHANGED <<disk, db, structural_lock, ss, sem, sched, edits, runs, lastSem, phase>>
    /\ UNCHANGED besideNotes

\* The store after a sequence of queries of a structural pass, run alone.
RECURSIVE RunOps(_, _)
RunOps(g, todo) ==
    IF todo = <<>> THEN g
    ELSE LET o == Head(todo)
             found == o.op = "select_link" /\ IdsByTitle(g, o.arg) # {}
         IN RunOps(Exec(g, o),
                   (IF found THEN << [o EXCEPT !.op = "relate_link"] >> ELSE <<>>) \o Tail(todo))

\* The store a structural pass over the corpus d leaves, from an empty store.
SyncedStore(d) == RunOps(EmptyDb, Plan(ReadAllNotes(d), {}))

\* sync_structural, sync_semantic and a change to a document, in a run of
\* bounded length
SyncCall(t) == Within /\ StructCall(t)
SemanticCall(m) == Within /\ SemList(m)
DocumentWritten(p, c) == Within /\ WriteFile(p, c)
DocumentRemoved(p) == Within /\ RemoveFile(p)

\* notes_rename: rename_note validates, finds the file, refuses a name that is
\* taken and renames the file.
RenameCall(h, path, new_title) ==
    /\ HandlerFree(h)
    /\ LET to == PathOf(new_title)
           failed == disk[path] = NoFile \/ disk[to] # NoFile
       IN /\ disk' = IF failed THEN disk
                     ELSE [disk EXCEPT ![path] = NoFile, ![to] = disk[path]]
          /\ ep' = [ep EXCEPT ![h] =
                [EpIdle EXCEPT
                    !.pc = IF failed THEN "idle" ELSE "update",
                    !.op = "rename", !.path = path, !.to = to,
                    !.old_title = Title(path), !.new_title = new_title,
                    !.result = IF disk[path] = NoFile THEN "not found"
                               ELSE IF disk[to] # NoFile THEN "conflict" ELSE ""]]
          /\ rlog' = [rlog EXCEPT
                !.n = @ + 1,
                !.cur = IF failed THEN NoRename
                        ELSE [NoRename EXCEPT
                                !.valid = TRUE, !.from = path, !.to = to,
                                !.old_title = Title(path), !.new_title = new_title,
                                !.insync = last.valid /\ last.changes = <<>>,
                                !.before = disk, !.linkers = Linkers(db, path),
                                !.refs = Cardinality(Referencing(disk, Title(path))),
                                !.began = Stamp]]
          /\ last' = IF failed THEN last ELSE Unsynced
    /\ UNCHANGED <<db, structural_lock, ss, sem, sched, edits, runs, lastSem, phase>>
    /\ UNCHANGED besideNotes

\* notes_rename: the UPDATE of the note's path and title
RenameUpdate(h) ==
    /\ ep[h].pc = "update"
    /\ db' = QUpdateNotePath(db, ep[h].path, ep[h].to, ep[h].new_title)
    /\ ep' = [ep EXCEPT ![h].pc = "rewrite"]
    /\ UNCHANGED rlog
    /\ UNCHANGED <<disk, structural_lock, ss, sem, sched, edits, runs, last, lastSem, phase>>
    /\ UNCHANGED besideNotes

\* notes_rename: rewrite_wikilinks over every listed file; a file that does
\* not decode raises out of the handler
RenameRewrite(h) ==
    /\ ep[h].pc = "rewrite"
    /\ IF \E p \in DOMAIN disk : disk[p] # NoFile /\ ~Readable(disk[p])
       THEN /\ ep' = [ep EXCEPT ![h] = [EpIdle EXCEPT !.op = "rename", !.result = "error"]]
            /\ rlog' = [rlog EXCEPT !.cur = NoRename]
            /\ UNCHANGED disk
       ELSE /\ disk' = RewriteWikilinksOnDisk(disk, ep[h].old_title, ep[h].new_title)
            /\ ep' = [ep EXCEPT
                  ![h].pc = "sync",
                  ![h].links_updated = Cardinality(RewrittenFiles(disk, ep[h].old_title))]
            /\ UNCHANGED rlog
    /\ UNCHANGED <<db, structural_lock, ss, sem, sched, edits, runs, last, lastSem, phase>>
    /\ UNCHANGED besideNotes

\* notes_rename: sync_structural(_db, notes_path) is called
RenameSync(h) ==
    /\ ep[h].pc = "sync"
    /\ ss[HandlerSync].pc = "idle"
    /\ ss' = [ss EXCEPT ![HandlerSync].pc = "lock"]
    /\ ep' = [ep EXCEPT ![h].pc = "syncing"]
    /\ UNCHANGED rlog
    /\ UNCHANGED <<disk, db, structural_lock, sem, sched, edits, runs, last, lastSem, phase>>
    /\ UNCHANGED besideNotes

\* notes_rename: the pass has returned; the response carries links_updated
RenameReturn(h) ==
    /\ ep[h].pc = "syncing"
    /\ ss[HandlerSync].pc = "idle"
    /\ ep' = [ep EXCEPT ![h] = [EpIdle EXCEPT !.op = "rename", !.result = "ok",
                                              !.links_updated = ep[h].links_updated]]
    /\ rlog' = [rlog EXCEPT
          !.cur = NoRename,
          !.prev = rlog.last,
          !.last = [rlog.cur EXCEPT !.count = ep[h].links_updated, !.ended = Stamp]]
    /\ UNCHANGED last
    /\ HandlerOnly

\* create_note: write_note, parse_note, then _sync_note_structural
CreateNote(h, title, content) ==
    /\ HandlerFree(h)
    /\ disk' = [disk EXCEPT ![PathOf(title)] = content]
    /\ ep' = [ep EXCEPT ![h] =
          [EpIdle EXCEPT !.pc = "run", !.op = "create_note", !.path = PathOf(title),
                         !.todo = SyncNoteStructuralOps(ParseNote(PathOf(title), content))]]
    /\ rlog' = [rlog EXCEPT !.n = @ + 1]
    /\ last' = Unsynced
    /\ UNCHANGED <<db, structural_lock, ss, sem, sched, edits, runs, lastSem, phase>>
    /\ UNCHANGED besideNotes

\* edit_note: SELECT path FROM note WHERE title = $title LIMIT 1
EditNoteSelect(h, title, content) ==
    /\ HandlerFree(h)
    /\ LET found == {n \in db.note : n.title = title}
           first == CHOOSE n \in found : \A m \in found : n.id <= m.id
       IN ep' = [ep EXCEPT ![h] =
             [EpIdle EXCEPT !.pc = "write", !.op = "edit_note", !.content = content,
                            !.path = IF found = {} THEN PathOf(title) ELSE first.path]]
    /\ rlog' = [rlog EXCEPT !.n = @ + 1]
    /\ last' = Unsynced
    /\ HandlerOnly

\* edit_note: rewrite_note, parse_note; a missing file ends the call
EditNoteWrite(h) ==
    /\ ep[h].pc = "write"
    /\ LET p == ep[h].path
       IN IF p \notin DOMAIN disk \/ disk[p] = NoFile \/ ~Readable(disk[p])
          THEN /\ ep' = [ep EXCEPT ![h] = [EpIdle EXCEPT !.op = "edit_note",
                                                         !.result = "not found"]]
               /\ UNCHANGED disk
          ELSE /\ disk' = [disk EXCEPT ![p] = ep[h].content]
               /\ ep' = [ep EXCEPT
                     ![h].pc = "run",
                     ![h].todo = SyncNoteStructuralOps(ParseNote(p, ep[h].content))]
    /\ UNCHANGED rlog
    /\ UNCHANGED <<db, structural_lock, ss, sem, sched, edits, runs, last, lastSem, phase>>
    /\ UNCHANGED besideNotes

\* notes_delete: delete_note moves the file to the trash; then
\* _delete_note_from_graph
DeleteNoteCall(h, path) ==
    /\ HandlerFree(h)
    /\ IF disk[path] = NoFile
       THEN /\ ep' = [ep EXCEPT ![h] = [EpIdle EXCEPT !.op = "delete", !.result = "not found"]]
            /\ UNCHANGED <<disk, last>>
       ELSE /\ disk' = [disk EXCEPT ![path] = NoFile]
            /\ ep' = [ep EXCEPT ![h] =
                  [EpIdle EXCEPT !.pc = "run", !.op = "delete", !.path = path,
                                 !.todo = DeleteFromGraphOps(path)]]
            /\ last' = Unsynced
    /\ rlog' = [rlog EXCEPT !.n = @ + 1]
    /\ UNCHANGED <<db, structural_lock, ss, sem, sched, edits, runs, lastSem, phase>>
    /\ UNCHANGED besideNotes

\* notes_empty_trash: empty_trash, then existing_paths = list_notes
EmptyTrashCall(h) ==
    /\ HandlerFree(h)
    /\ ep' = [ep EXCEPT ![h] =
          [EpIdle EXCEPT !.pc = "stored", !.op = "empty_trash",
                         !.existing = {p \in DOMAIN disk : disk[p] # NoFile}]]
    /\ rlog' = [rlog EXCEPT !.n = @ + 1]
    /\ last' = Unsynced
    /\ HandlerOnly

\* notes_empty_trash: stored = SELECT path FROM note WHERE path != NONE; the
\* notes not on disk are deleted from the graph, then the orphan tags
EmptyTrashStored(h) ==
    /\ ep[h].pc = "stored"
    /\ LET gone == SortedSeq(QStoredPaths(db) \ ep[h].existing)
       IN ep' = [ep EXCEPT
             ![h].pc = "run",
             ![h].todo = Flatten([i \in 1..Len(gone) |-> DeleteFromGraphOps(gone[i])])
                         \o << Op("del_orphan_tags", "", "", NoContent) >>]
    /\ UNCHANGED <<rlog, last>>
    /\ HandlerOnly

\* the next db.query of a tool or an endpoint
HandlerStep(h) ==
    /\ ep[h].pc = "run"
    /\ ep[h].todo # <<>>
    /\ LET o == Head(ep[h].todo)
           found == o.op = "select_link" /\ IdsByTitle(db, o.arg) # {}
       IN /\ db' = ExecNote(db, o)
          /\ ep' = [ep EXCEPT
                ![h].todo = (IF found THEN << [o EXCEPT !.op = "relate_link"] >> ELSE <<>>)
                            \o Tail(ep[h].todo)]
    /\ UNCHANGED rlog
    /\ UNCHANGED <<disk, structural_lock, ss, sem, sched, edits, runs, last, lastSem, phase>>
    /\ UNCHANGED besideNotes

\* the tool or the endpoint returns
HandlerReturn(h) ==
    /\ ep[h].pc = "run"
    /\ ep[h].todo = <<>>
    /\ ep' = [ep EXCEPT ![h] = [EpIdle EXCEPT !.op = ep[h].op, !.result = "ok"]]
    /\ UNCHANGED <<rlog, last>>
    /\ HandlerOnly

\* ------------------------------------------------------------ text windows

\* Bounds of the splitter's arguments: text length, window and overlap.
MaxTextLen == 5
MaxChunkSize == 4
MaxChunkOverlap == 5

Chars == {"x", "y"}

\* The texts of at most MaxTextLen characters.
SplitTexts == UNION {[1..n -> Chars] : n \in 0..MaxTextLen}

NoSplit == [called |-> FALSE, text |-> <<>>, chunk_size |-> 1, chunk_overlap |-> 0, out |-> <<>>]

SplitInit == split = NoSplit

\* _split_text(text, chunk_size, chunk_overlap) is called and returns
SplitCall(text, chunk_size, chunk_overlap) ==
    /\ ~split.called
    /\ split' = [called |-> TRUE, text |-> text, chunk_size |-> chunk_size,
                 chunk_overlap |-> chunk_overlap,
                 out |-> SplitText(text, chunk_size, chunk_overlap)]
    /\ UNCHANGED exceptSplit

\* -------------------------------------------------- chunk rewrite failures

\* Bounds of a run: edits of the document and semantic passes.
EmbedEdits == 1
EmbedRuns == 2

NoKept == [valid |-> FALSE, path |-> "", chunk |-> EmptyBag, db |-> EmptyDb, aborted |-> FALSE]

EmbedInit == kept = NoKept

\* A db.query of _write_chunks raises (the store refuses the statement or the
\* connection fails): the exception leaves run_async and is caught by the
\* except branch of sync_semantic_async.
SemWriteFails(m) ==
    /\ sem[m].pc \in {"upsert", "delete", "create"}
    /\ sem' = [sem EXCEPT ![m] = Except(sem[m])]
    /\ UNCHANGED others
    /\ UNCHANGED <<disk, db, structural_lock, ss, sched, edits, runs, last, lastSem, phase>>

\* A document that has been embedded is edited outside the engine.
DocumentEdited(p, c) ==
    /\ p \in sched.paths
    /\ MayBegin
    /\ edits < sched.maxEdits
    /\ disk[p] # NoFile
    /\ c # disk[p]
    /\ disk' = [disk EXCEPT ![p] = c]
    /\ Changed("edit", p)
    /\ kept' = [valid |-> TRUE, path |-> p, chunk |-> db.chunk, db |-> db, aborted |-> FALSE]
    /\ UNCHANGED <<db, structural_lock, ss, sem, sched, runs>>
    /\ UNCHANGED besideEmbed

\* A document is removed outside the engine.
DocumentDeleted(p) ==
    /\ p \in sched.paths
    /\ MayBegin
    /\ edits < sched.maxEdits
    /\ disk[p] # NoFile
    /\ disk' = [disk EXCEPT ![p] = NoFile]
    /\ Changed("delete", p)
    /\ kept' = [valid |-> TRUE, path |-> p, chunk |-> db.chunk, db |-> db, aborted |-> FALSE]
    /\ UNCHANGED <<db, structural_lock, ss, sem, sched, runs>>
    /\ UNCHANGED besideEmbed

\* ------------------------------------------------- aborted structural pass

\* Bounds of a run: changes to the corpus and structural passes.
AbortEdits == 2
AbortRuns == 3

\* An exception leaves _sync_structural_unlocked (a db.query or the read of
\* the corpus raises): "with _structural_lock" releases the lock on the way
\* out and no stats are returned.
StructAbort(t) ==
    /\ InStructuralBody(t)
    /\ structural_lock' = FALSE
    /\ ss' = [ss EXCEPT ![t] = SsIdle]
    /\ last' = [last EXCEPT !.valid = FALSE]
    /\ phase' = 0
    /\ kept' = [kept EXCEPT !.aborted = TRUE]
    /\ UNCHANGED <<disk, db, sem, sched, edits, runs, lastSem>>
    /\ UNCHANGED besideEmbed

\* The store a structural pass leaves when it runs alone from the store g
\* over the corpus d, without interruption.
PassOver(g, d) == RunOps(g, Plan(ReadAllNotes(d), QStoredPaths(g)))

\* ------------------------------------------------------------ specification

InitProcess ==
    /\ WatchInit
    /\ EmbedInit
    /\ SplitInit
    /\ EpInit
    /\ FsInit
    /\ PipelineInit
    /\ ServerInit
    /\ ConnInit
    /\ TrashInit
    /\ structural_lock = FALSE
    /\ ss = [t \in StructThreads |-> SsIdle]
    /\ sem = [m \in SemThreads |-> SemIdle]
    /\ edits = 0
    /\ runs = 0
    /\ last = NoLast
    /\ lastSem = NoLastSem
    /\ phase = 0

\* The server starts on an empty store.
InitCommon ==
    /\ InitProcess
    /\ db = EmptyDb

\* A corpus of the documents ps, any content each.
Corpus(ps) == {d \in [Paths -> Contents \cup {NoFile}] : \A p \in Paths \ ps : d[p] = NoFile}

\* Watcher callback and sync endpoints calling sync_structural, and a
\* semantic pass, concurrently with each other and with changes to a document.
Init ==
    /\ InitCommon
    /\ ConnOff
    /\ disk \in Corpus({"a.md"})
    /\ sched = [serial |-> FALSE, structs |-> StructThreads, sems |-> {"m1"},
                paths |-> {"a.md"}, maxEdits |-> RaceEdits, maxRuns |-> RaceRuns]

\* Two semantic passes (the watcher's background thread and a sync endpoint)
\* and a structural pass running concurrently.
InitSettle ==
    /\ InitCommon
    /\ ConnOff
    /\ disk \in Corpus({"a.md"})
    /\ sched = [serial |-> FALSE, structs |-> {"s1"}, sems |-> SemThreads,
                paths |-> {"a.md"}, maxEdits |-> SettleEdits, maxRuns |-> SettleRuns]

\* One operation at a time, the corpus changing only between operations.
InitSerial ==
    /\ InitCommon
    /\ ConnOff
    /\ disk \in Corpus(Paths)
    /\ sched = [serial |-> TRUE, structs |-> {"s1"}, sems |-> {"m1"},
                paths |-> Paths, maxEdits |-> SerialEdits, maxRuns |-> SerialRuns]

Next ==
    \/ \E t \in StructThreads :
          StructCall(t) \/ Acquire(t) \/ StructRead(t) \/ StructStored(t) \/ StructStep(t) \/ StructReturn(t)
    \/ \E m \in SemThreads :
          \/ SemList(m) \/ SemHashes(m) \/ SemRead(m) \/ SemHash(m) \/ SemLoad(m)
          \/ SemUpsert(m) \/ SemDelete(m) \/ SemCreate(m) \/ SemSetHash(m)
          \/ SemReturn(m) \/ SemRaise(m)
    \/ \E p \in Paths : RemoveFile(p) \/ \E c \in Contents : WriteFile(p, c)

Spec == Init /\ [][Next]_vars
SpecSettle == InitSettle /\ [][Next]_vars
SpecSerial == InitSerial /\ [][Next]_vars

\* The watcher alone: start_watcher has made the handler; no sync is modelled
\* behind on_change.
InitWatch ==
    /\ InitCommon
    /\ ConnOff
    /\ disk = [p \in Paths |-> NoFile]
    /\ sched = [serial |-> TRUE, structs |-> {}, sems |-> {}, paths |-> {},
                maxEdits |-> 0, maxRuns |-> 0]

NextWatch ==
    \/ \E e \in FsEvents : OnEvent(e)
    \/ SchedLock \/ SchedCancel \/ SchedStart \/ SchedUnlock
    \/ \E i \in 1..WatchEvents : Expire(i) \/ FireClear(i) \/ FireCall(i)
    \/ Tick

SpecWatch == InitWatch /\ [][NextWatch]_vars

\* Calls of create_connection and store_memory by the agent, one at a time.
InitTools(serial, maxCalls, maxMems, args) ==
    /\ InitCommon
    /\ disk = [p \in Paths |-> NoFile]
    /\ sched = [serial |-> TRUE, structs |-> {}, sems |-> {}, paths |-> {},
                maxEdits |-> 0, maxRuns |-> 0]
    /\ conn = [serial |-> serial, calls |-> 0, mems |-> 0, maxCalls |-> maxCalls,
               maxMems |-> maxMems, args |-> args]

InitConnSerial == InitTools(TRUE, ConnSerialCalls, MemCalls, ConnArgs)

\* Calls of create_connection that overlap, as agent sessions of one server make them.
InitConn == InitTools(FALSE, ConnRaceCalls, MemRaceCalls, ConnRaceArgs)

NextConn ==
    \/ \E t \in ConnThreads, a \in ConnArgs : ConnCall(t, a)
    \/ \E t \in ConnThreads : ResolveSource(t)
    \/ \E t \in ConnThreads : ResolveTarget(t)
    \/ \E t \in ConnThreads : DefineTable(t)
    \/ \E t \in ConnThreads : SelectExisting(t)
    \/ \E t \in ConnThreads : Relate(t)
    \/ \E t \in ConnThreads : ConnReturn(t)
    \/ StoreMemory("Tea")

SpecConn == InitConn /\ [][NextConn]_vars

SpecConnSerial == InitConnSerial /\ [][NextConn]_vars

\* Notes written, deleted, restored and renamed through the server, one request at a time.
InitTrash ==
    /\ InitCommon
    /\ ConnOff
    /\ disk = [p \in Paths |-> NoFile]
    /\ sched = [serial |-> TRUE, structs |-> {}, sems |-> {}, paths |-> {},
                maxEdits |-> 0, maxRuns |-> 0]

NextTrash ==
    \/ \E path \in UserPaths, text \in Texts : WriteNote(path, text)
    \/ \E path \in AllPaths : NotesDelete(path)
    \/ \E path \in AllPaths : NotesRestore(path)
    \/ \E path \in AllPaths, new_title \in NewTitles : NotesRename(path, new_title)
    \/ TrashTick

SpecTrash == InitTrash /\ [][NextTrash]_vars

\* The sync endpoints of a server that starts with or without a store.
InitServer ==
    /\ InitCommon
    /\ ConnOff
    /\ disk = [p \in Paths |-> NoFile]
    /\ sched = [serial |-> TRUE, structs |-> {}, sems |-> {}, paths |-> {},
                maxEdits |-> 0, maxRuns |-> 0]

NextServer ==
    \/ Lifespan \/ Shutdown \/ ReloadPipeline \/ NotesDirChange
    \/ SyncStructuralEndpoint \/ SyncSemanticEndpoint \/ SyncFullEndpoint

SpecServer == InitServer /\ [][NextServer]_vars

\* Pipelines constructed over a store that semantic syncs fill, one operation
\* at a time.
MigrateEdits == 1
MigrateRuns == 2

InitMigrate ==
    /\ InitCommon
    /\ ConnOff
    /\ disk \in Corpus(Paths)
    /\ sched = [serial |-> TRUE, structs |-> {}, sems |-> {"m1"},
                paths |-> Paths, maxEdits |-> MigrateEdits, maxRuns |-> MigrateRuns]

NextMigrate ==
    \/ \E dim \in Dimensions : Construct(dim)
    \/ DefineIndex \/ RemoveIndex \/ DeleteAllChunks \/ ClearHashes \/ RedefineIndex
    \/ ConstructReturn \/ ConstructCrash
    \/ \E m \in SemThreads :
          \/ SemanticSync(m) \/ SemHashes(m) \/ SemRead(m) \/ SemHash(m) \/ SemLoad(m)
          \/ SemUpsert(m) \/ SemDelete(m) \/ SemCreate(m) \/ SemSetHash(m)
          \/ SemReturn(m) \/ SemRaise(m)
    \/ \E p \in Paths : RemoveFile(p) \/ \E c \in Contents : WriteFile(p, c)

SpecMigrate == InitMigrate /\ [][NextMigrate]_vars

\* The note operations called with paths, titles and folders of every shape.
InitFs ==
    /\ InitCommon
    /\ ConnOff
    /\ disk = [p \in Paths |-> NoFile]
    /\ sched = [serial |-> TRUE, structs |-> {}, sems |-> {}, paths |-> {},
                maxEdits |-> 0, maxRuns |-> 0]

NextFs ==
    \/ \E title \in Titles, folder \in Folders : FsWriteNote(title, folder)
    \/ \E relative_path \in RelPaths : FsRewriteNote(relative_path)
    \/ \E relative_path \in RelPaths : FsMoveToTrash(relative_path)
    \/ \E relative_path \in RelPaths : FsRestoreFromTrash(relative_path)
    \/ \E relative_path \in RelPaths, new_title \in Titles :
          FsRenameNote(relative_path, new_title)

SpecFs == InitFs /\ [][NextFs]_vars

\* The documents of a corpus whose notes reference the note "a" in each form.
NoteContents ==
    { File(<<LinkTok("a")>>), File(<<AliasTok("a")>>), File(<<AnchorTok("a")>>),
      File(<<TagTok("t1"), LinkTok("a"), AliasTok("a")>>) }

\* Renames through the endpoint, structural syncs and changes to a document,
\* one operation at a time.
InitRename ==
    /\ InitCommon
    /\ ConnOff
    /\ disk \in {d \in [NotePaths -> NoteContents \cup {File(<<>>), NoFile}] :
                    /\ d["a.md"] \in {File(<<>>), File(<<LinkTok("a")>>)}
                    /\ d["c.md"] = NoFile}
    /\ sched = [serial |-> TRUE, structs |-> {"s2"}, sems |-> {},
                paths |-> {"b.md"}, maxEdits |-> NoteEdits, maxRuns |-> NoteRuns,
                handlers |-> {"h1"}, maxOps |-> NoteOps]

NextRename ==
    \/ \E h \in Handlers, path \in NotePaths, new_title \in {"a", "b", "c"} :
          RenameCall(h, path, new_title)
    \/ \E h \in Handlers : RenameUpdate(h)
    \/ \E h \in Handlers : RenameRewrite(h)
    \/ \E h \in Handlers : RenameSync(h)
    \/ \E h \in Handlers : RenameReturn(h)
    \/ \E t \in StructThreads :
          StructCall(t) \/ Acquire(t) \/ StructRead(t) \/ StructStored(t) \/ StructStep(t) \/ StructReturn(t)
    \/ \E p \in NotePaths : RemoveFile(p) \/ \E c \in Contents : WriteFile(p, c)

SpecRename == InitRename /\ [][NextRename]_vars

\* What a tool writes into a note.
ToolContents == { File(<<LinkTok("a")>>), File(<<TagTok("t1"), LinkTok("c")>>) }

\* The rename endpoint, the note tools, note deletion and empty-trash, a
\* structural and a semantic pass and a change to a document, overlapping as
\* the server's threads allow, over a store that a structural pass has filled.
InitNotes ==
    /\ InitProcess
    /\ ConnOff
    /\ disk \in {d \in [NotePaths -> {File(<<LinkTok("a")>>), File(<<LinkTok("b")>>), NoFile}] :
                    /\ d["a.md"] = File(<<LinkTok("b")>>)
                    /\ d["c.md"] = NoFile}
    /\ db = SyncedStore(disk)
    /\ sched = [serial |-> FALSE, structs |-> {"s2"}, sems |-> {"m1"},
                paths |-> {"b.md"}, maxEdits |-> RaceOps, maxRuns |-> RaceOps,
                handlers |-> Handlers, maxOps |-> RaceOps]

NextNotes ==
    \/ \E path \in NotePaths, new_title \in {"a", "b", "c"} : RenameCall("h1", path, new_title)
    \/ RenameUpdate("h1")
    \/ RenameRewrite("h1")
    \/ RenameSync("h1")
    \/ RenameReturn("h1")
    \/ \E title \in {"a", "b", "c"}, content \in ToolContents : CreateNote("h2", title, content)
    \/ \E title \in {"a", "b", "c"}, content \in ToolContents : EditNoteSelect("h2", title, content)
    \/ EditNoteWrite("h2")
    \/ \E path \in NotePaths : DeleteNoteCall("h2", path)
    \/ EmptyTrashCall("h2")
    \/ EmptyTrashStored("h2")
    \/ HandlerStep("h2")
    \/ HandlerReturn("h2")
    \/ \E t \in StructThreads :
          SyncCall(t) \/ Acquire(t) \/ StructRead(t) \/ StructStored(t) \/ StructStep(t) \/ StructReturn(t)
    \/ \E m \in SemThreads :
          \/ SemanticCall(m) \/ SemHashes(m) \/ SemRead(m) \/ SemHash(m) \/ SemLoad(m)
          \/ SemUpsert(m) \/ SemDelete(m) \/ SemCreate(m) \/ SemSetHash(m)
          \/ SemReturn(m) \/ SemRaise(m)
    \/ \E p \in NotePaths : DocumentRemoved(p) \/ \E c \in Contents : DocumentWritten(p, c)

SpecNotes == InitNotes /\ [][NextNotes]_vars

\* The splitter called with texts, windows and overlaps of every small size.
InitSplit ==
    /\ InitCommon
    /\ ConnOff
    /\ disk = [p \in Paths |-> NoFile]
    /\ sched = [serial |-> TRUE, structs |-> {}, sems |-> {}, paths |-> {},
                maxEdits |-> 0, maxRuns |-> 0]

NextSplit ==
    \E text \in SplitTexts, chunk_size \in 1..MaxChunkSize, chunk_overlap \in 0..MaxChunkOverlap :
        SplitCall(text, chunk_size, chunk_overlap)

SpecSplit == InitSplit /\ [][NextSplit]_vars

\* Semantic passes over one document, one at a time, with a store that can
\* refuse a statement of the chunk rewrite.
InitEmbed ==
    /\ InitCommon
    /\ ConnOff
    /\ disk \in Corpus({"a.md"})
    /\ sched = [serial |-> TRUE, structs |-> {}, sems |-> {"m1"},
                paths |-> {"a.md"}, maxEdits |-> EmbedEdits, maxRuns |-> EmbedRuns]

NextEmbed ==
    \/ \E m \in SemThreads :
          \/ SemList(m) \/ SemHashes(m) \/ SemRead(m) \/ SemHash(m) \/ SemLoad(m)
          \/ SemUpsert(m) \/ SemDelete(m) \/ SemCreate(m) \/ SemSetHash(m)
          \/ SemReturn(m) \/ SemRaise(m) \/ SemWriteFails(m)
    \/ \E p \in Paths, c \in Contents : DocumentEdited(p, c)

SpecEmbed == InitEmbed /\ [][NextEmbed]_vars

\* Structural passes that can end by an exception, one at a time, over a
\* corpus that changes between passes.
InitAbort ==
    /\ InitCommon
    /\ ConnOff
    /\ disk \in Corpus(Paths)
    /\ sched = [serial |-> TRUE, structs |-> {"s1"}, sems |-> {},
                paths |-> Paths, maxEdits |-> AbortEdits, maxRuns |-> AbortRuns]

NextAbort ==
    \/ \E t \in StructThreads :
          \/ StructCall(t) \/ Acquire(t) \/ StructRead(t) \/ StructStored(t) \/ StructStep(t)
          \/ StructReturn(t) \/ StructAbort(t)
    \/ \E p \in Paths : DocumentDeleted(p) \/ \E c \in Contents : DocumentEdited(p, c)

SpecAbort == InitAbort /\ [][NextAbort]_vars

\* ------------------------------------------------------------------ claims

\* C1: at most one structural-sync pass is executing at any time: no two
\* callers are inside the body of the pass (_sync_structural_unlocked) together.
C1_OnePassAtATime ==
    Cardinality({t \in StructThreads : InStructuralBody(t)}) <= 1

\* C1 witness: one caller is running the pass while another waits for the lock.
C1_Witness ==
    \E t, u \in StructThreads : ss[t].pc = "run" /\ ss[t].todo # <<>> /\ ss[u].pc = "lock"

\* The documents on disk (outside the trash).
OnDisk(d) == {p \in Paths : d[p] # NoFile}

RangeOf(s) == {s[i] : i \in DOMAIN s}

\* What a note's chunks should be: the windows of its file, numbered from 0.
Windows(c) ==
    LET w == SplitText(c.toks, ChunkSize, ChunkOverlap)
    IN {[idx |-> i - 1, text |-> w[i]] : i \in DOMAIN w}

\* The chunks the store holds for the note with this id.
ChunkRows(g, i) ==
    {[idx |-> c.idx, text |-> c.text] : c \in {x \in DOMAIN g.chunk : x.doc = i}}

TagsOf(g, i) == {e[2] : e \in {x \in DOMAIN g.tagged_with : x[1] = i}}
LinksOf(g, i) == {e[2] : e \in {x \in DOMAIN g.links_to : x[1] = i}}

\* One Note per on-disk document and none for any other path.
NotesMatch(g, d) ==
    \A p \in Paths : Cardinality({n \in g.note : n.path = p}) = (IF p \in OnDisk(d) THEN 1 ELSE 0)

\* Every Note's tagged_with edges are its file's tag set.
TagsMatch(g, d) ==
    \A n \in g.note : TagsOf(g, n.id) = ExtractTags(d[n.path])

\* Every Note's links_to edges lead to the Notes its file's wikilinks name.
LinksMatch(g, d) ==
    \A n \in g.note :
        LinksOf(g, n.id) = {t.id : t \in {x \in g.note : x.title \in RangeOf(ExtractLinks(d[n.path]))}}

\* Every non-empty Note's chunks are its file's windows, and its hash the file's.
ChunksMatch(g, d) ==
    \A n \in g.note :
        d[n.path].toks # <<>> =>
            /\ ChunkRows(g, n.id) = Windows(d[n.path])
            /\ n.content_hash = Hash(d[n.path])

Consistent(g, d) ==
    NotesMatch(g, d) /\ TagsMatch(g, d) /\ LinksMatch(g, d) /\ ChunksMatch(g, d)

\* A semantic pass has examined every file and is about to return its counts.
SemDone(m) == sem[m].pc = "loop" /\ sem[m].files = <<>>

\* A structural pass has issued every query and is about to return.
StructDone(t) == ss[t].pc = "run" /\ ss[t].todo = <<>>

\* C2: once the corpus has stopped changing and nothing is in flight, a complete
\* structural sync followed by a complete semantic sync (no note failing)
\* leaves the graph consistent with the corpus, whatever ran before: one Note
\* per document, tag and link edges as in the files, and for every non-empty
\* note the file's chunks and the file's hash.
C2_ConsistentAtRest ==
    \A m \in SemThreads :
        (phase = 3 /\ SemDone(m) /\ sem[m].failed = {}) => Consistent(db, disk)

\* C3: after a structural sync completes, the Note paths in the graph are
\* exactly the documents on disk outside the trash: every document has a Note,
\* and a Note is gone if and only if its file is.
C3_NotesAreTheDocuments ==
    \A t \in StructThreads : StructDone(t) => QStoredPaths(db) = OnDisk(disk)

\* C4: after a structural sync completes, every Note's tagged_with edges lead
\* to exactly the tags of its current file (none for a tag edited out), each
\* to a Tag that exists, and no edge is duplicated.
C4_TagEdgesAreTheFileTags ==
    \A t \in StructThreads :
        StructDone(t) =>
            /\ \A n \in db.note : TagsOf(db, n.id) = ExtractTags(disk[n.path])
            /\ \A e \in DOMAIN db.tagged_with :
                   db.tagged_with[e] = 1 /\ e[2] \in db.tag /\ e[1] \in {n.id : n \in db.note}

\* C4 witness: a pass completes with a Note tagged t2 while the Tag t1, which
\* an earlier version of a file carried, has no edge left.
C4_Witness ==
    \E t \in StructThreads :
        /\ StructDone(t)
        /\ \E n \in db.note : TagsOf(db, n.id) = {"t2"}
        /\ "t1" \in db.tag
        /\ \A e \in DOMAIN db.tagged_with : e[2] # "t1"

\* C5: after a structural sync completes, a links_to edge from Note N to Note
\* T exists if and only if N's current file has a wikilink to T's title; a
\* wikilink to a missing target yields no edge and no placeholder Note, so the
\* edge appears on the first pass after the target is created.
C5_LinkEdgesIffTargetExists ==
    \A t \in StructThreads :
        StructDone(t) =>
            /\ \A n \in db.note : \A x \in db.note :
                   (<<n.id, x.id>> \in DOMAIN db.links_to)
                       <=> (x.title \in RangeOf(ExtractLinks(disk[n.path])))
            /\ \A e \in DOMAIN db.links_to :
                   db.links_to[e] = 1 /\ {e[1], e[2]} \subseteq {n.id : n \in db.note}
            /\ QStoredPaths(db) \subseteq OnDisk(disk)

\* C5 witness: the pass before found no target for a.md's wikilink to b, then
\* b.md was created, and this pass made the edge.
C5_Witness ==
    \E t \in StructThreads :
        /\ StructDone(t)
        /\ last.valid
        /\ last.changes = << [kind |-> "create", path |-> "b.md"] >>
        /\ DOMAIN last.links_to = {}
        /\ {n.path : n \in last.note} = {"a.md"}
        /\ \E n \in db.note : \E x \in db.note :
               n.path = "a.md" /\ x.path = "b.md" /\ <<n.id, x.id>> \in DOMAIN db.links_to

\* C6: two consecutive structural syncs with no change to the corpus between
\* them end with the same Notes, tagged_with edges and links_to edges, and no
\* step of a structural pass changes the content_hash of a Note.
C6_Idempotent ==
    /\ [](\A t \in StructThreads :
            (StructDone(t) /\ last.valid /\ last.changes = <<>>) =>
                /\ {[n EXCEPT !.content_hash = NoHash] : n \in db.note} = last.note
                /\ db.tagged_with = last.tagged_with
                /\ db.links_to = last.links_to)
    /\ [][\A t \in StructThreads :
            (InStructuralBody(t) /\ ss'[t] # ss[t]) =>
                \A n \in db.note : \A x \in db'.note :
                    n.id = x.id => x.content_hash = n.content_hash]_vars

\* C6 witness: a second pass over an unchanged corpus completes on a graph
\* holding a hashed Note and both kinds of edge.
C6_Witness ==
    \E t \in StructThreads :
        /\ StructDone(t)
        /\ last.valid
        /\ last.changes = <<>>
        /\ \E n \in db.note : n.content_hash # NoHash
        /\ DOMAIN db.tagged_with # {}
        /\ DOMAIN db.links_to # {}

\* The last semantic pass returned with every note processed or skipped, none failing.
LastSemClean == lastSem.valid /\ lastSem.failed = {}

OneEdit(p) == << [kind |-> "edit", path |-> p] >>

Written(m, i) ==
    SetToBag({[doc |-> i, idx |-> k - 1, text |-> sem[m].chunks[k]] : k \in DOMAIN sem[m].chunks})

\* C8: a Note's content_hash changes only in the UPDATE that follows the
\* complete rewrite of its chunks (the Note then holds exactly the chunks of
\* the file whose hash is stored); a step that records a failure changes no
\* stored hash; and the notes that failed are attempted again by the next
\* pass over the unchanged corpus.
C8_HashAfterRewrite ==
    /\ [][\A n \in db.note : \A x \in db'.note :
            (n.id = x.id /\ x.content_hash # n.content_hash) =>
                \E m \in SemThreads :
                    /\ sem[m].pc = "sethash" /\ sem[m].cur = n.path
                    /\ x.content_hash = sem[m].file_hash
                    /\ x.content_hash = Hash(disk[n.path])
                    /\ BagKeep(db.chunk, {c \in DOMAIN db.chunk : c.doc = n.id}) = Written(m, n.id)
                    /\ ChunkRows(db, n.id) = Windows(disk[n.path])]_vars
    /\ [][\A m \in SemThreads :
            sem'[m].failed # sem[m].failed /\ sem'[m].pc # "hashes" =>
                GetStoredHashes(db') = GetStoredHashes(db)]_vars
    /\ [](\A m \in SemThreads :
            (SemDone(m) /\ lastSem.valid /\ lastSem.changes = <<>>) =>
                lastSem.failed \subseteq sem[m].invoked)

\* C8 witness: a.md failed in the last pass and kept its old hash; this pass
\* attempted it again, rewrote its chunks and stored the file's hash.
C8_Witness ==
    \E m \in SemThreads :
        /\ SemDone(m)
        /\ lastSem.valid /\ lastSem.changes = <<>> /\ lastSem.failed = {"a.md"}
        /\ "a.md" \in sem[m].invoked /\ sem[m].failed = {}
        /\ \E n \in db.note :
               /\ n.path = "a.md" /\ n.content_hash = Hash(disk["a.md"])
               /\ ChunkRows(db, n.id) = Windows(disk["a.md"])

\* C9: a failure on one note never aborts a semantic sync: no pass ends by an
\* exception leaving sync_semantic_async with files unexamined and no counts.
C9_BatchNeverAborts ==
    \A m \in SemThreads : sem[m].pc # "raised"

\* C10: when a semantic and a structural sync have run concurrently and both
\* are over, the graph has no duplicate Note, no chunk without an existing
\* owning Note, and no Note whose stored hash is its file's hash while its
\* chunks are not the file's.
C10_RaceNeverCorrupts ==
    AllIdle =>
        /\ \A p \in Paths : Cardinality({n \in db.note : n.path = p}) <= 1
        /\ \A c \in DOMAIN db.chunk : c.doc \in {n.id : n \in db.note}
        /\ \A n \in db.note :
               (n.content_hash = Hash(disk[n.path]) /\ disk[n.path].toks # <<>>) =>
                   ChunkRows(db, n.id) = Windows(disk[n.path])

\* The handler is at rest: no event being handled, no Timer pending or firing.
WatchQuiet ==
    hpc = "idle" /\ \A i \in DOMAIN timers : timers[i].st \in {"cancelled", "done"}

\* C11: every read and every write of the handler's pending-timer state
\* (_timer), in _schedule_sync and in _fire, is made by a thread that holds
\* the handler's lock.
C11_TimerAccessUnderLock == acc.locked

\* The k-th event is the last of its burst: no event follows it within the
\* debounce period.
LastOfBurst(k) == k = Len(events) \/ events[k + 1] - events[k] >= Debounce

Bursts == {k \in DOMAIN events : LastOfBurst(k)}

\* C12: a burst of qualifying events, each less than the debounce period after
\* the one before, results in exactly one on_change invocation, after the
\* last event of the burst: once the handler is at rest there are as many
\* invocations as bursts, the k-th invocation not before the end of the k-th burst.
C12_OneCallPerBurst ==
    WatchQuiet =>
        /\ Len(calls) = Cardinality(Bursts)
        /\ \A k \in Bursts :
               LET n == Cardinality({j \in Bursts : j <= k})
               IN n <= Len(calls) => calls[n] >= events[k]

\* The edges a call of create_connection is about: one from every record
\* its source names to every record its target names, of its relation.
Triples(t) ==
    {[rel |-> cc[t].rel_type, in |-> i, out |-> o] :
        i \in SelectIds(ents, cc[t].src_table, cc[t].arg.source_name),
        o \in SelectIds(ents, cc[t].tgt_table, cc[t].arg.target_name)}

Connected(t) == cc[t].pc = "done" /\ cc[t].result = "connected"

\* C13: a call of create_connection that runs alone and connects creates an
\* edge exactly for the (source record, relation, target record) triples it
\* names that had no edge when it was called, one edge each, and creates or
\* removes no other edge: an identical second call creates nothing, a call
\* with the endpoints swapped or another relation creates a distinct edge.
C13_EdgeIffNoneExists ==
    \A t \in ConnThreads :
        Connected(t) =>
            \A e \in DOMAIN edges \cup DOMAIN cc[t].pre.edges \cup Triples(t) :
                CopiesIn(e, edges) =
                    IF e \in Triples(t) /\ ~BagIn(e, cc[t].pre.edges)
                    THEN 1
                    ELSE CopiesIn(e, cc[t].pre.edges)

\* C14: the graph never holds two edges of one agent-declared relation
\* with the same source record and the same target record.
C14_NoDuplicateEdge == \A e \in DOMAIN edges : edges[e] <= 1

\* What a caller of create_connection passed names a reserved table once sanitized.
NamesReserved(t) ==
    \/ SanitizeIdentifier(cc[t].arg.source_type) \in ReservedEntityTables
    \/ SanitizeIdentifier(cc[t].arg.target_type) \in ReservedEntityTables
    \/ SanitizeIdentifier(cc[t].arg.relationship) \in ReservedRelationshipTables

StoreAsCalled(t) ==
    /\ ents = cc[t].pre.ents
    /\ edges = cc[t].pre.edges
    /\ tables = cc[t].pre.tables

LookupRecords(E) == {r \in E : r.tb \in {T_note, T_memory}}

\* The endpoints of a call that are notes or memories and matched no record
\* when it was called.
MissingEndpoints(t) ==
    {x \in {[tb |-> cc[t].src_table, key |-> cc[t].arg.source_name, side |-> "source"],
             [tb |-> cc[t].tgt_table, key |-> cc[t].arg.target_name, side |-> "target"]} :
        x.tb \in {T_note, T_memory} /\ Matching(cc[t].pre.ents, x.tb, x.key) = {}}

\* C16: create_connection never creates or changes a note or memory
\* record; a call with a note or memory endpoint that matches no record ends
\* with a not-found error and the edges as they were; a call that connects
\* has created, for each endpoint of another type, the record of that name
\* if there was none, and no other record.
C16_LookupOnlyNotesAndMemories ==
    \A t \in ConnThreads :
        cc[t].pc # "idle" =>
            /\ LookupRecords(ents) = LookupRecords(cc[t].pre.ents)
            /\ (cc[t].pc = "done" /\ ~NamesReserved(t) /\ MissingEndpoints(t) # {}) =>
                   /\ cc[t].result \in {"source not found", "target not found"}
                   /\ edges = cc[t].pre.edges
            /\ Connected(t) =>
                   /\ MissingEndpoints(t) = {}
                   /\ \A x \in {[tb |-> cc[t].src_table, key |-> cc[t].arg.source_name],
                                 [tb |-> cc[t].tgt_table, key |-> cc[t].arg.target_name]} :
                          x.tb \notin {T_note, T_memory} =>
                              Cardinality(Matching(ents, x.tb, x.key)) = 1
                   /\ cc[t].pre.ents \subseteq ents
                   /\ \A r \in ents \ cc[t].pre.ents :
                          \/ r.tb = cc[t].src_table /\ r.key = cc[t].arg.source_name
                          \/ r.tb = cc[t].tgt_table /\ r.key = cc[t].arg.target_name

\* a call from a new person to a note that does not exist fails after the
\* person was created
C16_Witness ==
    \E t \in ConnThreads :
        /\ cc[t].pc = "done"
        /\ cc[t].result = "target not found"
        /\ cc[t].tgt_table = T_note
        /\ cc[t].src_table = T_person
        /\ ents # cc[t].pre.ents

\* The last operation restored, or tried to, an entry a deletion made.
RestoredHeld == tlast.op = "restore" /\ tlast.at > 0

\* The restore put the file back where it was deleted from.
PutBack ==
    /\ tlast.result = "ok"
    /\ tlast.to = tlast.origin
    /\ tlast.origin \in DOMAIN corpus
    /\ corpus[tlast.origin] = tlast.text
    /\ tlast.path \notin DOMAIN trash

\* C17: deleting a note and then restoring the trash entry the deletion
\* made puts the file back at the path it was deleted from, with the same
\* text, and leaves no such entry in the trash.
C17_DeleteThenRestore == (RestoredHeld /\ tlast.at = tops - 1) => PutBack

\* C18: every file deleted and not restored since is still in the trash,
\* with its text, as an entry of its own.
C18_EachDeletedFileKept ==
    \A i \in DOMAIN held :
        /\ held[i].entry \in DOMAIN trash
        /\ trash[held[i].entry] = held[i].text
        /\ \A j \in DOMAIN held : held[j].entry = held[i].entry => j = i

\* C19: restoring any trash entry while the path its file was deleted from
\* is free puts the file back at that path, the entry with a timestamp
\* suffix included.
C19_EveryEntryRestorable == (RestoredHeld /\ tlast.free) => PutBack

\* A request of restore or rename was served by this step.
Served(op) == tops' = tops + 1 /\ tlast'.op = op

FailedUntouched ==
    tlast'.result \in {"not found", "conflict"} => UNCHANGED <<corpus, trash, gnotes, gq>>

GraphStoreCall ==
    \/ \E t \in StructThreads : StructStored(t) \/ StructStep(t)
    \/ \E m \in SemThreads :
         SemHashes(m) \/ SemUpsert(m) \/ SemDelete(m) \/ SemCreate(m) \/ SemSetHash(m)

\* A step that reaches self._model.encode(chunks).
EmbeddingCall ==
    \E m \in SemThreads :
        /\ SemLoad(m)
        /\ Readable(disk[sem[m].cur])
        /\ SplitText(disk[sem[m].cur].toks, ChunkSize, ChunkOverlap) # <<>>

\* C27: while the structural-sync lock is held, no step is an
\* embedding-model call and no step is a graph-store call.
C27_NoCallsUnderLock ==
    [][structural_lock => ~(EmbeddingCall \/ GraphStoreCall)]_vars

\* The chunks linked by from_document to a note at path p.
ChunksOf(g, p) == BagKeep(g.chunk, {c \in DOMAIN g.chunk : c.doc \in IdsByPath(g, p)})

\* One chunk per window, idx 0..n-1 in window order, owned by the note at p.
WindowChunks(g, p, windows) ==
    SetToBag({[doc |-> FirstIdByPath(g, p), idx |-> i - 1, text |-> windows[i]] :
                 i \in DOMAIN windows})

\* _write_chunks has returned for the note the pass is at, and no other pass
\* is inside _write_chunks for that note.
Rewritten(m) ==
    /\ sem[m].pc = "sethash"
    /\ sem[m].chunks # <<>>
    /\ \A o \in SemThreads \ {m} :
           ~(sem[o].pc \in {"upsert", "delete", "create"} /\ sem[o].cur = sem[m].cur)

\* C30: after a successful chunk rewrite for a Note, its chunk set is
\* exactly the new windows, one chunk per window with idx 0..n-1, each linked
\* to the Note, and no chunk of an earlier version remains (checked when no
\* other pass is in the middle of rewriting the same Note).
C30_ChunkSetIsNewWindows ==
    \A m \in SemThreads :
        Rewritten(m) => ChunksOf(db, sem[m].cur) = WindowChunks(db, sem[m].cur, sem[m].chunks)

\* C28: while no store connection has been established, every request to the
\* structural, semantic or full sync endpoint is answered with an error (503)
\* and runs no sync pass; this holds at every request until the server has a
\* connection.
C28_NoSyncWithoutStore ==
    [][(~server.db /\ reqs' = reqs + 1) => (resp'.status = 503 /\ passes' = passes)]_vars

\* C28 witness: with no store, a fourth request in a row was refused, after
\* an earlier run of the server with a store had synced.
C28_Witness ==
    /\ server.up
    /\ ~server.db
    /\ resp = [endpoint |-> "structural", status |-> 503]
    /\ reqs >= 4
    /\ passes.structural > 0

\* The notes a semantic sync has to embed: readable and not empty.
NonEmptyNotes == {p \in Paths : Readable(disk[p]) /\ disk[p].toks # <<>>}

\* The first semantic pass after the construction that found the index of
\* another dimension has examined every file.
FirstPassAfterRebuild(m) ==
    /\ kg.built
    /\ kg.mismatch
    /\ runs = kg.runs_at + 1
    /\ sem[m].pc = "loop"
    /\ sem[m].files = <<>>

\* C25: a construction that finds an index of another dimension ends with the
\* index at the configured dimension, no chunk and no stored content_hash;
\* and the next semantic sync passes every non-empty note to the pipeline.
C25_MismatchRebuilds ==
    /\ (kg.pc = "return" /\ kg.mismatch) =>
          /\ index = kg.dim
          /\ db.chunk = EmptyBag
          /\ \A n \in db.note : n.content_hash = NoHash
    /\ \A m \in SemThreads : FirstPassAfterRebuild(m) => sem[m].invoked = NonEmptyNotes

\* C26: a construction that begins after a rebuild was cut short (a crash or
\* failure after REMOVE INDEX and before the index was recreated) runs the
\* rebuild again before it returns.
C26_TornRebuildReruns ==
    (kg.pc = "return" /\ kg.found_torn) => kg.migrated

\* C23: an operation that builds, from its caller's input, a path that
\* resolves outside the corpus root ends in an error, having created, moved,
\* written or deleted nothing on disk, and its handler does not go on to
\* write to the store.
C23_EscapeRejectedBeforeIO ==
    (\E b \in fop.built : ~IsRelativeTo(b, Root)) =>
        /\ fop.result # "ok"
        /\ fop.touched = {}
        /\ ~fop.stored

\* The rename endpoint has just returned, nothing has begun since, and the
\* graph agreed with the corpus when the rename began.
RenameDone ==
    /\ rlog.last.valid
    /\ rlog.last.insync
    /\ rlog.last.ended = Stamp
    /\ AllIdle

\* The kinds of the wikilinks and tags of a document, in order.
Kinds(c) == [i \in DOMAIN c.toks |-> c.toks[i].k]

\* C21: after a rename completes (file renamed, Note path and title updated,
\* wikilinks rewritten, structural sync re-run) no document of the corpus
\* holds a wikilink to the old title, every link keeps its form (a display
\* alias stays), and every Note that had a links_to edge to the renamed Note
\* before the rename has one to it afterwards.
C21_RenameRewritesAll ==
    RenameDone =>
        LET r == rlog.last
        IN /\ Referencing(disk, r.old_title) = {}
           /\ \A p \in DOMAIN disk :
                 Kinds(disk[p]) = Kinds(r.before[IF p = r.to THEN r.from
                                                 ELSE IF p = r.from THEN r.to ELSE p])
           /\ r.linkers \subseteq Linkers(db, r.to)

\* The second of two renames that undo each other has just returned, the
\* first having begun with the graph in agreement with the corpus and
\* nothing having run between the two.
RoundTripDone ==
    /\ rlog.last.valid /\ rlog.prev.valid
    /\ rlog.prev.insync
    /\ rlog.last.began = rlog.prev.ended
    /\ rlog.last.from = rlog.prev.to /\ rlog.last.to = rlog.prev.from
    /\ rlog.last.ended = Stamp
    /\ AllIdle

\* C22: renaming a note A to B and then B back to A restores the original
\* path and title, every Note that linked to A before the two renames links
\* to A again, and each rename reports a rewrite count equal to the number of
\* files that referenced the renamed title.
C22_RenameRoundTrip ==
    RoundTripDone =>
        LET r == rlog.prev
        IN /\ disk[r.from] # NoFile /\ disk[r.to] = NoFile
           /\ \E n \in db.note : n.path = r.from /\ n.title = r.old_title
           /\ r.linkers \subseteq Linkers(db, r.from)
           /\ r.count = r.refs
           /\ rlog.last.count = rlog.last.refs

\* Neither note deletion nor empty-trash has been called.
NoDeletion == \A h \in Handlers : ep[h].op \notin {"delete", "empty_trash"}

EdgesHaveNotes(g) ==
    \A e \in DOMAIN g.links_to : e[1] \in {n.id : n \in g.note} /\ e[2] \in {n.id : n \in g.note}

WindowStart(i) == (i - 1) * Max(1, split.chunk_size - split.chunk_overlap)

\* C32: for any text, any chunk_size > 0 and any chunk_overlap >= 0,
\* _split_text returns windows that start at successive multiples of
\* max(1, chunk_size - chunk_overlap), together cover every character of the
\* text, and all have length exactly chunk_size except the last, which may be
\* shorter; empty text yields no windows.
C32_WindowsTileText ==
    split.called =>
        LET out == split.out
            text == split.text
        IN /\ text = <<>> => out = <<>>
           /\ \A i \in DOMAIN out :
                 /\ out[i] # <<>>
                 /\ out[i] = SubSeq(text, WindowStart(i) + 1, WindowStart(i) + Len(out[i]))
           /\ \A k \in 1..Len(text) :
                 \E i \in DOMAIN out : WindowStart(i) < k /\ k <= WindowStart(i) + Len(out[i])
           /\ \A i \in 1..(Len(out) - 1) : Len(out[i]) = split.chunk_size

\* The semantic pass that followed the last edit has returned, and its
\* attempt to embed the edited document failed.
FailedAttempt ==
    /\ AllIdle
    /\ kept.valid
    /\ lastSem.valid /\ lastSem.changes = <<>>
    /\ kept.path \in lastSem.failed

\* C31: a failure while re-embedding a Note never loses the chunks stored for
\* it before: after a failed attempt the Note still has its complete previous
\* chunk set.
C31_FailureKeepsChunks == FailedAttempt => kept.chunk \sqsubseteq db.chunk

\* The Tags no tagged_with edge points at.
OrphanTags(g) == {t \in g.tag : ~\E e \in DOMAIN g.tagged_with : e[2] = t}

\* The structural pass of t has made its last query and it pruned a Note.
PrunedPassDone(t) ==
    ss[t].pc = "run" /\ ss[t].todo = <<>> /\ ss[t].stats.pruned > 0

\* The empty-trash call of h has made its last query.
EmptyTrashDone(h) ==
    ep[h].op = "empty_trash" /\ ep[h].pc = "run" /\ ep[h].todo = <<>>

\* C33: after a structural-sync pass that pruned at least one Note, and after
\* an empty-trash call, no Tag without a tagged_with edge remains in the graph.
C33_NoOrphanTags ==
    ((\E t \in StructThreads : PrunedPassDone(t)) \/ (\E h \in Handlers : EmptyTrashDone(h)))
        => OrphanTags(db) = {}

\* The tool call of h is inside _sync_note_structural.
InToolRebuild(h) ==
    ep[h].op \in {"create_note", "edit_note"} /\ ep[h].pc = "run" /\ ep[h].todo # <<>>

\* C35: the per-note edge rebuild of the create_note and edit_note tools never
\* interleaves with the edge rebuilding of a running structural pass: the two
\* are mutually exclusive.
C35_ToolRebuildExcludesSync ==
    ~(\E h \in Handlers, t \in StructThreads : InToolRebuild(h) /\ InStructuralBody(t))

\* No semantic pass is running.
NoSemanticInFlight == \A m \in SemThreads : sem[m].pc = "idle"

\* The Note at p carries the hash of the file now at p.
HashCurrent(p) ==
    /\ Readable(disk[p])
    /\ \E n \in db.note : n.path = p /\ n.content_hash = Hash(disk[p])

\* C36: whenever a Note's stored content_hash equals the hash of its current
\* file and no semantic sync is in flight, the Note's chunk set is exactly the
\* window set of the current file content: nothing missing, stale or
\* duplicated, also after two semantic syncs ran concurrently on the Note or
\* the file was edited while it was being embedded.
C36_CleanHashMeansCurrentChunks ==
    NoSemanticInFlight =>
        \A p \in Paths :
            HashCurrent(p) =>
                ChunksOf(db, p) =
                    WindowChunks(db, p, SplitText(disk[p].toks, ChunkSize, ChunkOverlap))

\* C37: if a structural pass aborts with an exception at any point, the lock
\* is released and the next structural sync that runs to completion leaves
\* the graph exactly as a single uninterrupted pass over the same corpus
\* would (from the graph as it was before the aborted pass).
C37_AbortThenPassAsOnePass ==
    /\ (\A t \in StructThreads : ~InStructuralBody(t)) => ~structural_lock
    /\ \A t \in StructThreads :
           (StructDone(t) /\ kept.valid /\ kept.aborted) => db = PassOver(kept.db, disk)

\* ------------------------------------------------------- watcher progress

\* The outcomes of self._on_change() inside _fire.
Outcomes == {"returned", "raised"}

\* An event is delivered while the run still has time for its Timer to elapse.
EventInTime(e) ==
    /\ now + Debounce <= WatchTime
    /\ OnEvent(e)

\* _fire: self._on_change() is entered (the sync behind it takes time)
FireBegin(i) ==
    /\ i \in DOMAIN timers
    /\ timers[i].st = "call"
    /\ calls' = Append(calls, now)
    /\ timers' = [timers EXCEPT ![i].st = "running"]
    /\ UNCHANGED <<now, timer, wlock, hpc, events, seen, acc>>
    /\ UNCHANGED exceptWatch

\* _fire: self._on_change() returns, or raises and "except Exception" logs
\* it; either way the Timer thread ends
FireEnd(i, outcome) ==
    /\ i \in DOMAIN timers
    /\ timers[i].st = "running"
    /\ timers' = [timers EXCEPT ![i].st = IF outcome = "raised" THEN "logged" ELSE "done"]
    /\ UNCHANGED <<now, timer, wlock, hpc, events, seen, calls, acc>>
    /\ UNCHANGED exceptWatch

NextWatchLive ==
    \/ \E e \in FsEvents : EventInTime(e)
    \/ SchedLock \/ SchedCancel \/ SchedStart \/ SchedUnlock
    \/ \E i \in 1..WatchEvents : Expire(i) \/ FireClear(i) \/ FireBegin(i)
    \/ \E i \in 1..WatchEvents, outcome \in Outcomes : FireEnd(i, outcome)
    \/ Tick

\* The observer thread and every Timer thread keep running, and time passes;
\* on_change is not required to return.
FairWatch ==
    /\ WF_vars(SchedLock) /\ WF_vars(SchedCancel)
    /\ WF_vars(SchedStart) /\ WF_vars(SchedUnlock)
    /\ \A i \in 1..WatchEvents :
           WF_vars(Expire(i)) /\ WF_vars(FireClear(i)) /\ WF_vars(FireBegin(i))
    /\ WF_vars(Tick)

SpecWatchLive == InitWatch /\ [][NextWatchLive]_vars /\ FairWatch

\* A qualifying event has just been accepted by its handler method.
EventArrived == hpc = "lock"

NotFound(t) ==
    cc[t].pc = "done" /\ cc[t].result \in {"source not found", "target not found"}

\* C39: when create_connection returns a not-found error for either
\* endpoint, the graph and the schema are as they were before the call: no
\* entity created, no relation table declared, no edge added.
C39_NotFoundTouchesNothing == \A t \in ConnThreads : NotFound(t) => StoreAsCalled(t)

\* ------------------------------------------------------------ table kinds

\* Bound: calls of create_connection in a run that reuses table names.
KindCalls == 3

\* The agent connects persons, by the relation knows and by a relation it
\* names person.
KindArgs ==
    {a \in [source_type : {T_person}, source_name : {"Alice", "Bob"},
            relationship : {T_knows, T_person},
            target_type : {T_person}, target_name : {"Alice", "Bob"}] : TRUE}

InitKind == InitTools(TRUE, KindCalls, 0, KindArgs)

NextKind ==
    \/ \E t \in ConnThreads, a \in KindArgs : ConnCall(t, a)
    \/ \E t \in ConnThreads : ResolveSource(t)
    \/ \E t \in ConnThreads : ResolveTarget(t)
    \/ \E t \in ConnThreads : DefineTable(t)
    \/ \E t \in ConnThreads : SelectExisting(t)
    \/ \E t \in ConnThreads : Relate(t)
    \/ \E t \in ConnThreads : ConnReturn(t)

SpecKind == InitKind /\ [][NextKind]_vars

\* The kind of table tb in a store: a relation table once DEFINE TABLE ...
\* TYPE RELATION named it, else a table of records if it holds any.
KindOf(E, T, tb) ==
    IF tb \in T THEN "relation"
    ELSE IF \E r \in E : r.tb = tb THEN "records"
    ELSE "none"

\* C40: create_connection never changes the kind of an existing table (a
\* relation name already in use as an agent-declared entity table is not
\* redefined), and the records and edges stored before a call are there
\* after it.
C40_TableKindsKept ==
    \A t \in ConnThreads :
        cc[t].pc # "idle" =>
            /\ \A tb \in {T_person, T_knows} :
                   KindOf(cc[t].pre.ents, cc[t].pre.tables, tb) # "none" =>
                       KindOf(ents, tables, tb) = KindOf(cc[t].pre.ents, cc[t].pre.tables, tb)
            /\ cc[t].pre.ents \subseteq ents
            /\ cc[t].pre.edges \sqsubseteq edges

\* ------------------------------------------- agent-declared edges of notes

\* Bounds: calls of create_connection, deletions of a document and
\* structural passes in a run that prunes connected notes.
PruneCalls == 2
PruneEdits == 1
PruneRuns == 2

\* The agent connects notes by their titles.
NoteArgs ==
    {a \in [source_type : {T_note}, source_name : {"a", "b"}, relationship : {T_about},
            target_type : {T_note}, target_name : {"a", "b"}] : TRUE}

\* (SELECT VALUE id FROM note WHERE title = $val)[0]
FirstIdByTitle(g, title) ==
    IF IdsByTitle(g, title) = {} THEN NoId
    ELSE CHOOSE i \in IdsByTitle(g, title) : \A j \in IdsByTitle(g, title) : i <= j

\* SELECT VALUE id FROM rel WHERE in = (SELECT VALUE id FROM note WHERE title = $src)[0]
\*                            AND out = (SELECT VALUE id FROM note WHERE title = $tgt)[0] LIMIT 1
QExistingNotes(g, rel, src, tgt) ==
    /\ FirstIdByTitle(g, src) # NoId
    /\ FirstIdByTitle(g, tgt) # NoId
    /\ [rel |-> rel, in |-> FirstIdByTitle(g, src), out |-> FirstIdByTitle(g, tgt)]
           \in DOMAIN g.related

\* RELATE (SELECT VALUE id FROM note WHERE title = $src)->rel->
\*        (SELECT VALUE id FROM note WHERE title = $tgt)
QRelateNotes(g, rel, src, tgt) ==
    [g EXCEPT !.related =
        @ (+) SetToBag({[rel |-> rel, in |-> i, out |-> j] :
                           i \in IdsByTitle(g, src), j \in IdsByTitle(g, tgt)})]

\* _resolve_entity(db, "note", identifier): SELECT VALUE id FROM note WHERE title = $val
ResolveNote(t, title, next, missing) ==
    /\ cc' = [cc EXCEPT ![t].queries = @ + 1,
                        ![t].pc = IF IdsByTitle(db, title) # {} THEN next ELSE "done",
                        ![t].result = IF IdsByTitle(db, title) # {} THEN "" ELSE missing]
    /\ UNCHANGED <<ents, edges, tables, conn>>
    /\ UNCHANGED syncVars
    /\ UNCHANGED besideConn

\* if not _resolve_entity(_db, src_table, source_name), the source a note
ResolveSourceNote(t) ==
    /\ cc[t].pc = "source"
    /\ cc[t].src_table = T_note
    /\ ResolveNote(t, cc[t].arg.source_name, "target", "source not found")

\* if not _resolve_entity(_db, tgt_table, target_name), the target a note
ResolveTargetNote(t) ==
    /\ cc[t].pc = "target"
    /\ cc[t].tgt_table = T_note
    /\ ResolveNote(t, cc[t].arg.target_name, "define", "target not found")

\* the duplicate check of create_connection between two notes
SelectExistingNotes(t) ==
    /\ cc[t].pc = "existing"
    /\ LET found == QExistingNotes(db, cc[t].rel_type, cc[t].arg.source_name,
                                   cc[t].arg.target_name)
       IN cc' = [cc EXCEPT ![t].queries = @ + 1,
                           ![t].existing = found,
                           ![t].pc = IF found THEN "done" ELSE "relate",
                           ![t].result = IF found THEN "connected" ELSE ""]
    /\ UNCHANGED <<ents, edges, tables, conn>>
    /\ UNCHANGED syncVars
    /\ UNCHANGED besideConn

\* if not existing: RELATE between the notes of the two titles
RelateNotes(t) ==
    /\ cc[t].pc = "relate"
    /\ db' = QRelateNotes(db, cc[t].rel_type, cc[t].arg.source_name, cc[t].arg.target_name)
    /\ cc' = [cc EXCEPT ![t].queries = @ + 1, ![t].pc = "done", ![t].result = "connected"]
    /\ UNCHANGED <<ents, edges, tables, conn>>
    /\ UNCHANGED <<disk, structural_lock, ss, sem, sched, edits, runs, last, lastSem, phase>>
    /\ UNCHANGED besideConn

\* An agent session connecting notes while documents are deleted and the
\* watcher's structural sync prunes them, from a synced store.
InitPrune ==
    /\ InitProcess
    /\ disk = [p \in Paths |-> File(<<TagTok("t1")>>)]
    /\ db = SyncedStore(disk)
    /\ sched = [serial |-> FALSE, structs |-> {"s1"}, sems |-> {},
                paths |-> Paths, maxEdits |-> PruneEdits, maxRuns |-> PruneRuns]
    /\ conn = [serial |-> FALSE, calls |-> 0, mems |-> 0, maxCalls |-> PruneCalls,
               maxMems |-> 0, args |-> NoteArgs]

NextPrune ==
    \/ \E t \in StructThreads :
          \/ StructCall(t) \/ Acquire(t) \/ StructRead(t) \/ StructStored(t) \/ StructStep(t)
          \/ StructReturn(t)
    \/ \E p \in Paths : DocumentDeleted(p)
    \/ \E a \in NoteArgs : ConnCall("k1", a)
    \/ ResolveSourceNote("k1") \/ ResolveTargetNote("k1") \/ DefineTable("k1")
    \/ SelectExistingNotes("k1") \/ RelateNotes("k1") \/ ConnReturn("k1")

SpecPrune == InitPrune /\ [][NextPrune]_vars

\* Every edge of an agent-declared relation joins two Notes of the store,
\* as does every tagged_with and links_to edge its Note endpoints.
NoEdgeOfMissingNote(g) ==
    LET ids == {n.id : n \in g.note}
    IN /\ \A e \in DOMAIN g.related : e.in \in ids /\ e.out \in ids
       /\ \A e \in DOMAIN g.tagged_with : e[1] \in ids
       /\ \A e \in DOMAIN g.links_to : e[1] \in ids /\ e[2] \in ids

\* The pass of t has pruned a Note.
HasPruned(t) == ss[t].pc = "run" /\ ss[t].stats.pruned > 0

====
